---- MODULE Spec2Model ----
(***************************************************************************)
(* TennisNow crawler: the WebTrac listing normalizers                      *)
(* (crawler/WebTrac/parse_webtrac_listing.py), the WebTrac schedule        *)
(* assembler (crawler/WebTrac/fetch_schedule.py) and the JSON date         *)
(* grouping of the Xplor / Menlo Park fetchers (parse_schedule_data).      *)
(*                                                                         *)
(* Text is modelled as TLA+ strings, read character by character with      *)
(* Len, SubSeq and \o.  A Python value that may be None is a tagged        *)
(* record: Null or Str(s).                                                 *)
(***************************************************************************)
EXTENDS Integers, Sequences, FiniteSets, TLC

VARIABLES
    html,      \* the listing document handed to the normalizers
    listing,   \* the facilities the vendor rendered into html (Null: unknown)
    shape,     \* "raw", or the layout ("table" / "card") listing was rendered in
    pc,        \* "ready" before the operation, "done" after it
    op,        \* the operation that ran
    items,     \* the list of records the operation returned
    calls,     \* the normalizers the operation called, in call order
    request,   \* the arguments and the config of a fetch_schedule call, else Null
    payload,   \* the JSON response handed to parse_schedule_data
    result     \* what parse_schedule_data returned, Null before the call

vars == <<html, listing, shape, pc, op, items, calls, request, payload, result>>

----------------------------------------------------------------------------
(* Python values *)

Null == [t |-> "null"]

Str(s) == [t |-> "str", s |-> s]

\* Python truthiness of an Optional[str]: None and "" are falsy
Truthy(v) == v.t = "str" /\ v.s # ""

----------------------------------------------------------------------------
(* Text helpers: str.lower, str.strip, the `in` substring test *)

Ch(s, i) == SubSeq(s, i, i)

UpperChars == "ABCDEFGHIJKLMNOPQRSTUVWXYZ"

LowerChars == "abcdefghijklmnopqrstuvwxyz"

UpperSet == {Ch(UpperChars, i) : i \in 1..Len(UpperChars)}

LowerSet == {Ch(LowerChars, i) : i \in 1..Len(LowerChars)}

\* the lower-case letter of each upper-case letter
LowerOf ==
    [c \in UpperSet |-> Ch(LowerChars, CHOOSE i \in 1..Len(UpperChars) : Ch(UpperChars, i) = c)]

LowerCh(c) == IF c \in UpperSet THEN LowerOf[c] ELSE c

RECURSIVE Lower(_)
Lower(s) == IF s = "" THEN "" ELSE LowerCh(Ch(s, 1)) \o Lower(SubSeq(s, 2, Len(s)))

IsDigit(c) == c \in {"0", "1", "2", "3", "4", "5", "6", "7", "8", "9"}

IsSpace(c) == c \in {" ", "\t", "\n"}

IsWord(c) == IsDigit(c) \/ c = "_" \/ c \in UpperSet \/ c \in LowerSet

RECURSIVE LStrip(_)
LStrip(s) ==
    IF s # "" /\ IsSpace(Ch(s, 1)) THEN LStrip(SubSeq(s, 2, Len(s))) ELSE s

RECURSIVE RStrip(_)
RStrip(s) ==
    IF s # "" /\ IsSpace(Ch(s, Len(s))) THEN RStrip(SubSeq(s, 1, Len(s) - 1)) ELSE s

Strip(s) == RStrip(LStrip(s))

\* needle in hay
Contains(hay, needle) ==
    \E i \in 1..(Len(hay) - Len(needle) + 1) : SubSeq(hay, i, i + Len(needle) - 1) = needle

----------------------------------------------------------------------------
(* TIME_RE = \b\d{1,2}:\d{2}\s*(?:am|pm)\s*-\s*\d{1,2}:\d{2}\s*(?:am|pm)\b *)
(* with re.I.  Each piece maps a set of positions (characters consumed so  *)
(* far) to the set of positions after the piece, so every way the          *)
(* backtracking matcher can split the text is followed.                    *)

WordAt(s, k) == k \in 1..Len(s) /\ IsWord(Ch(s, k))

\* \b
Boundary(s, P) == {p \in P : WordAt(s, p) # WordAt(s, p + 1)}

\* Lit without re.I
Lit_CaseSensitive(s, P, c) == {p + 1 : p \in {q \in P : q < Len(s) /\ Ch(s, q + 1) = c}}

\* one literal character, case-insensitively
Lit(s, P, c) == {p + 1 : p \in {q \in P : q < Len(s) /\ LowerCh(Ch(s, q + 1)) = c}}

\* \d{lo,hi}
Digits(s, P, lo, hi) ==
    UNION {{p + n : n \in {m \in lo..hi : /\ p + m <= Len(s)
                                          /\ \A k \in 1..m : IsDigit(Ch(s, p + k))}} : p \in P}

\* the number of whitespace characters of s from position k on, up to the
\* first character that is none
RECURSIVE SpaceRun(_, _)
SpaceRun(s, k) == IF k <= Len(s) /\ IsSpace(Ch(s, k)) THEN 1 + SpaceRun(s, k + 1) ELSE 0

\* \s*
Spaces(s, P) == UNION {p..(p + SpaceRun(s, p + 1)) : p \in P}

\* (?:am|pm)
AmPm(s, P) == Lit(s, Lit(s, P, "a") \cup Lit(s, P, "p"), "m")

\* \d{1,2}:\d{2}\s*(?:am|pm)
ClockTime(s, P) == AmPm(s, Spaces(s, Digits(s, Lit(s, Digits(s, P, 1, 2), ":"), 2, 2)))

\* the positions where a match of TIME_RE that starts at a position of P can end
TIME_RE(s, P) ==
    Boundary(s, ClockTime(s, Spaces(s, Lit(s, Spaces(s, ClockTime(s, Boundary(s, P))), "-"))))

\* TIME_RE.fullmatch(s) is not None
TIME_RE_fullmatch(s) == Len(s) \in TIME_RE(s, {0})

----------------------------------------------------------------------------
(* The listing document as BeautifulSoup presents it to the normalizers.   *)
(*   html      = [tables, containers]                                      *)
(*   table     = [id, tbody (is there a tbody), rows (its direct tr)]      *)
(*   row       = [cells (td.label-cell), links (href of each a), anchors   *)
(*                (a.cart-button)], each in document order                 *)
(*   container = [id, cards (.result-content)]                             *)
(*   card      = [links, header (text of the header span, Null: no such    *)
(*                span), tds, anchors]                                     *)
(*   cell, td  = [title (data-title, "" when absent), text]                *)
(*   anchor    = [class (tokens joined by one space), tooltip              *)
(*                (data-tooltip, "" when absent), kids]                    *)
(*   kid       = [span (a span element, else a bare string), text]         *)

TableId == "frwebsearch_output_table"

ContainerId == "frwebsearch_nextgencontrolsgroup"

\* Tag.get_text(strip=True) of an anchor: every string stripped, empty ones
\* skipped, joined without a separator
RECURSIVE get_text(_)
get_text(kids) ==
    IF kids = <<>> THEN "" ELSE Strip(Head(kids).text) \o get_text(Tail(kids))

\* a.find_all("span")
find_all_span(kids) == SelectSeq(kids, LAMBDA k : k.span)

\* CartButton with the unavailable text read from the whole button instead of
\* its first span
CartButton_WholeText(a, acc) ==
    LET classes == Lower(a.class)
        tooltip == Lower(a.tooltip)
    IN  IF Contains(classes, "success") /\ Contains(tooltip, "book now")
        THEN IF TIME_RE_fullmatch(get_text(a.kids))
             THEN [acc EXCEPT !.available = Append(@, get_text(a.kids))]
             ELSE acc
        ELSE IF Contains(classes, "error") /\ Contains(tooltip, "unavailable")
        THEN IF TIME_RE_fullmatch(get_text(a.kids))
             THEN [acc EXCEPT !.unavailable = Append(@, get_text(a.kids))]
             ELSE acc
        ELSE acc

\* what one a.cart-button adds to (available, unavailable): the body of the
\* loop over the cart buttons
CartButton(a, acc) ==
    LET classes == Lower(a.class)
        tooltip == Lower(a.tooltip)
        spans   == find_all_span(a.kids)
    IN  IF Contains(classes, "success") /\ Contains(tooltip, "book now")
        THEN IF TIME_RE_fullmatch(get_text(a.kids))
             THEN [acc EXCEPT !.available = Append(@, get_text(a.kids))]
             ELSE acc
        ELSE IF Contains(classes, "error") /\ Contains(tooltip, "unavailable")
        THEN IF spans # <<>> /\ TIME_RE_fullmatch(Strip(spans[1].text))
             THEN [acc EXCEPT !.unavailable = Append(@, Strip(spans[1].text))]
             ELSE acc
        ELSE acc

\* for a in ...select("a.cart-button"): the loop, from anchor k on
RECURSIVE CartButtons(_, _, _)
CartButtons(anchors, k, acc) ==
    IF k > Len(anchors) THEN acc
    ELSE CartButtons(anchors, k + 1, CartButton(anchors[k], acc))

NoSlots == [available |-> <<>>, unavailable |-> <<>>]

\* re.search(r"[?&]FMID=(\d+)", href): the positions where a match starts
FmidStarts(href) ==
    {i \in 1..(Len(href) - 6) : /\ Ch(href, i) \in {"?", "&"}
                                /\ SubSeq(href, i + 1, i + 5) = "FMID="
                                /\ IsDigit(Ch(href, i + 6))}

\* the longest run of digits of s that starts at position k
RECURSIVE DigitRun(_, _)
DigitRun(s, k) ==
    IF k <= Len(s) /\ IsDigit(Ch(s, k)) THEN Ch(s, k) \o DigitRun(s, k + 1) ELSE ""

\* m.group(1) of the leftmost match, None without a match
FmidOf(href) ==
    IF FmidStarts(href) = {} THEN Null
    ELSE LET i == CHOOSE j \in FmidStarts(href) : \A k \in FmidStarts(href) : j <= k
         IN  Str(DigitRun(href, i + 6))

\* the label cells of a facility row: first truthy text of each title wins
RECURSIVE LabelCells(_, _, _)
LabelCells(cells, k, acc) ==
    IF k > Len(cells) THEN acc
    ELSE LET td == cells[k]
         IN  LabelCells(cells, k + 1,
                IF td.title = "Facility Description" /\ ~Truthy(acc.facility)
                THEN [acc EXCEPT !.facility = Str(Strip(td.text))]
                ELSE IF td.title = "Location Description" /\ ~Truthy(acc.location)
                THEN [acc EXCEPT !.location = Str(Strip(td.text))]
                ELSE acc)

\* row.find("a", href=re.compile(r"iteminfo\.html\?", re.I)), then FMID
TableFmid(row) ==
    LET hits == SelectSeq(row.links, LAMBDA h : Contains(Lower(h), "iteminfo.html?"))
    IN  IF hits = <<>> THEN Null ELSE FmidOf(hits[1])

\* TableRows looping only while a following row exists
RECURSIVE TableRows_NeedsSlotRow(_, _)
TableRows_NeedsSlotRow(rows, i) ==
    IF i + 1 > Len(rows) THEN <<>>
    ELSE IF rows[i].cells = <<>> THEN TableRows_NeedsSlotRow(rows, i + 1)
    ELSE LET got   == LabelCells(rows[i].cells, 1, [facility |-> Null, location |-> Null])
             slots == CartButtons(rows[i + 1].anchors, 1, NoSlots)
         IN  << [fmid              |-> TableFmid(rows[i]),
                 label             |-> got.facility,
                 location          |-> got.location,
                 available_slots   |-> slots.available,
                 unavailable_slots |-> slots.unavailable] >>
             \o TableRows_NeedsSlotRow(rows, i + 2)

\* the while loop of parse_listing_table_schedules, from row i (1-based) on
RECURSIVE TableRows(_, _)
TableRows(rows, i) ==
    IF i > Len(rows) THEN <<>>
    ELSE IF rows[i].cells = <<>> THEN TableRows(rows, i + 1)
    ELSE LET got   == LabelCells(rows[i].cells, 1, [facility |-> Null, location |-> Null])
             slots == IF i + 1 <= Len(rows)
                      THEN CartButtons(rows[i + 1].anchors, 1, NoSlots)
                      ELSE NoSlots
         IN  << [fmid              |-> TableFmid(rows[i]),
                 label             |-> got.facility,
                 location          |-> got.location,
                 available_slots   |-> slots.available,
                 unavailable_slots |-> slots.unavailable] >>
             \o TableRows(rows, i + 2)

\* parse_listing_table_schedules reading the first table of the document,
\* whatever its id
parse_listing_table_schedules_AnyTable(doc) ==
    IF doc.tables = <<>> THEN <<>>
    ELSE IF ~doc.tables[1].tbody THEN <<>>
    ELSE TableRows(doc.tables[1].rows, 1)

parse_listing_table_schedules(doc) ==
    LET found == SelectSeq(doc.tables, LAMBDA t : t.id = TableId)
    IN  IF found = <<>> THEN <<>>
        ELSE IF ~found[1].tbody THEN <<>>
        ELSE TableRows(found[1].rows, 1)

\* card.select_one('a[href*="iteminfo.html?"][href*="FMID="]'), then FMID
CardFmid(card) ==
    LET hits == SelectSeq(card.links,
                          LAMBDA h : Contains(h, "iteminfo.html?") /\ Contains(h, "FMID="))
    IN  IF hits = <<>> THEN Null ELSE FmidOf(hits[1])

\* one card of parse_listing_group_schedules
Card(card) ==
    LET locs  == SelectSeq(card.tds, LAMBDA td : td.title = "Location Description")
        slots == CartButtons(card.anchors, 1, NoSlots)
    IN  [fmid              |-> CardFmid(card),
         label             |-> IF card.header # Null /\ Strip(card.header.s) # ""
                               THEN Str(Strip(card.header.s)) ELSE Null,
         location          |-> IF locs = <<>> THEN Null ELSE Str(Strip(locs[1].text)),
         available_slots   |-> slots.available,
         unavailable_slots |-> slots.unavailable]

RECURSIVE Cards(_, _)
Cards(cards, k) ==
    IF k > Len(cards) THEN <<>> ELSE <<Card(cards[k])>> \o Cards(cards, k + 1)

parse_listing_group_schedules(doc) ==
    LET found == SelectSeq(doc.containers, LAMBDA c : c.id = ContainerId)
    IN  IF found = <<>> THEN <<>> ELSE Cards(found[1].cards, 1)

----------------------------------------------------------------------------
(* The schedule assembler: fetch_schedule of crawler/WebTrac and the CLI   *)
(* main of parse_webtrac_listing.                                          *)

\* s.rstrip("/")
RECURSIVE rstrip_slash(_)
rstrip_slash(s) ==
    IF s # "" /\ Ch(s, Len(s)) = "/" THEN rstrip_slash(SubSeq(s, 1, Len(s) - 1)) ELSE s

\* the first position where sep occurs in s, 0 when it does not
FirstAt(s, sep) ==
    LET at == {i \in 1..(Len(s) - Len(sep) + 1) : SubSeq(s, i, i + Len(sep) - 1) = sep}
    IN  IF at = {} THEN 0 ELSE CHOOSE i \in at : \A j \in at : i <= j

\* s.split(sep), sep not empty
RECURSIVE Split(_, _)
Split(s, sep) ==
    IF FirstAt(s, sep) = 0 THEN << s >>
    ELSE << SubSeq(s, 1, FirstAt(s, sep) - 1) >>
         \o Split(SubSeq(s, FirstAt(s, sep) + Len(sep), Len(s)), sep)

\* the site fetch_schedule picks for a query_mode
SiteOf(query_mode) ==
    IF Contains(query_mode, "san_mateo") THEN "San Mateo"
    ELSE IF Contains(query_mode, "albany") THEN "Albany"
    ELSE "Burlingame"

\* f"{base_url.split('//')[1].split('.')[0]}_webtrac"
SourceTag(base_url) == Split(Split(base_url, "//")[2], ".")[1] \o "_webtrac"

\* TableThenGroup with the fallback test inverted: "if items:"
TableThenGroup_Inverted(doc) ==
    LET first == parse_listing_table_schedules(doc)
    IN  IF first # <<>>
        THEN [items |-> parse_listing_group_schedules(doc), calls |-> <<"table", "group">>]
        ELSE [items |-> first, calls |-> <<"table">>]

\* items = parse_listing_table_schedules(html)
\* if not items: items = parse_listing_group_schedules(html)
TableThenGroup(doc) ==
    LET first == parse_listing_table_schedules(doc)
    IN  IF first = <<>>
        THEN [items |-> parse_listing_group_schedules(doc), calls |-> <<"table", "group">>]
        ELSE [items |-> first, calls |-> <<"table">>]

\* it.update({"date": ..., "source": ...})
Tagged(it, date_ymd, source) ==
    [fmid              |-> it.fmid,
     label             |-> it.label,
     location          |-> it.location,
     available_slots   |-> it.available_slots,
     unavailable_slots |-> it.unavailable_slots,
     date              |-> date_ymd,
     source            |-> source]

\* "for it in items: it.update({...})" on what the normalizers returned
TaggedAll(got, date_ymd, source) ==
    [items |-> [k \in 1..Len(got.items) |-> Tagged(got.items[k], date_ymd, source)],
     calls |-> got.calls]

\* fetch_schedule(date_ymd, query_mode) when the site's config entry holds
\* base_url (a string) and the browser returned doc
fetch_schedule(doc, date_ymd, base_url) ==
    TaggedAll(TableThenGroup(doc), date_ymd, SourceTag(rstrip_slash(base_url)))

----------------------------------------------------------------------------
(* The documents the normalizers are run on.                               *)

MaxRows == 3

MaxAnchors == 2

MaxCells == 2

MaxCards == 2

MaxFacilities == 2

SeqsUpTo(S, n) == UNION {[1..k -> S] : k \in 0..n}

\* the (class, data-tooltip) pairs of the cart buttons
SignalPool ==
    { << "button cart-button success", "Book Now" >>,
      << "button cart-button error", "Unavailable" >>,
      << "cart-button success error", "Book Now - Unavailable" >>,
      << "button cart-button success", "Unavailable" >>,
      << "button cart-button error", "Book Now" >> }

KidsPool ==
    { << [span |-> TRUE, text |-> " 8:00 am - 9:00 am "] >>,
      << [span |-> TRUE, text |-> "9:00 AM-10:00 AM"], [span |-> TRUE, text |-> "Unavailable"] >>,
      << [span |-> FALSE, text |-> "Details"] >> }

\* every signal around the first slot text, the two plain signals around
\* every child list
AnchorPool ==
    {[class |-> g[1], tooltip |-> g[2], kids |-> k] :
        g \in SignalPool, k \in {<< [span |-> TRUE, text |-> " 8:00 am - 9:00 am "] >>}}
    \cup {[class |-> g[1], tooltip |-> g[2], kids |-> k] :
            g \in {<< "button cart-button success", "Book Now" >>,
                   << "button cart-button error", "Unavailable" >>},
            k \in KidsPool}

BookNow8 == [class |-> "button cart-button success", tooltip |-> "Book Now",
             kids |-> << [span |-> TRUE, text |-> " 8:00 am - 9:00 am "] >>]

Unavailable9 == [class |-> "button cart-button error", tooltip |-> "Unavailable",
                 kids |-> << [span |-> TRUE, text |-> "9:00 AM-10:00 AM"],
                             [span |-> TRUE, text |-> "Unavailable"] >>]

CellPool == [title : {"Facility Description", "Location Description"},
             text  : {"", "Court 1", " Laguna Park "}]

LinkPool ==
    { <<>>,
      << "iteminfo.html?Module=FR&FMID=296964" >>,
      << "ItemInfo.html?FMID=12" >>,
      << "iteminfo.html?Module=FR", "iteminfo.html?x=1&FMID=7&y=2" >> }

FacilityRow(cells, links) == [cells |-> cells, links |-> links, anchors |-> <<>>]

SlotRow(anchors) == [cells |-> <<>>, links |-> <<>>, anchors |-> anchors]

Court1Row ==
    FacilityRow(<< [title |-> "Facility Description", text |-> "Court 1"] >>,
                << "iteminfo.html?Module=FR&FMID=296964" >>)

\* the row shapes of the documents that vary the row structure
StructRows ==
    { Court1Row,
      FacilityRow(<< [title |-> "Location Description", text |-> " Laguna Park "] >>, <<>>),
      SlotRow(<< BookNow8 >>),
      SlotRow(<< Unavailable9 >>),
      SlotRow(<<>>) }

Table(id, tbody, rows) == [id |-> id, tbody |-> tbody, rows |-> rows]

Container(id, cards) == [id |-> id, cards |-> cards]

Doc(tables, containers) == [tables |-> tables, containers |-> containers]

Court1Card ==
    [links  |-> << "iteminfo.html?Module=FR&FMID=296964" >>,
     header |-> Str("Court 1"),
     tds    |-> <<>>,
     anchors |-> << BookNow8 >>]

\* the tables a document can hold around the same rows
TableWraps(rows) ==
    { << Table(TableId, TRUE, rows) >>,
      << Table(TableId, FALSE, rows) >>,
      << Table("results", TRUE, rows) >>,
      << Table("results", TRUE, << Court1Row >>), Table(TableId, TRUE, rows) >> }

TableDocs ==
    {Doc(t, <<>>) : t \in UNION {TableWraps(rows) : rows \in SeqsUpTo(StructRows, MaxRows)}}
    \cup {Doc(<< Table(TableId, TRUE, << Court1Row, SlotRow(a) >>) >>, <<>>) :
            a \in SeqsUpTo(AnchorPool, MaxAnchors)}
    \cup {Doc(<< Table(TableId, TRUE, << r, SlotRow(<< BookNow8 >>) >>) >>, <<>>) :
            r \in {FacilityRow(c, <<>>) : c \in SeqsUpTo(CellPool, MaxCells) \ {<<>>}}
                  \cup {FacilityRow(Court1Row.cells, l) : l \in LinkPool}}

CardPool ==
    { Court1Card,
      [links |-> <<>>, header |-> Null, tds |-> <<>>, anchors |-> << Unavailable9 >>] }

CardDocs ==
    {Doc(<<>>, << Container(id, cards) >>) :
        id \in {ContainerId, "results"}, cards \in SeqsUpTo(CardPool, MaxCards)}
    \cup {Doc(<<>>, << Container(ContainerId,
                << [links |-> l, header |-> h, tds |-> <<>>, anchors |-> << BookNow8 >>] >>) >>) :
            l \in LinkPool, h \in {Null, Str(""), Str(" Court 1 ")}}
    \cup {Doc(<<>>, << Container(ContainerId,
                << [links |-> <<>>, header |-> Null, tds |-> c, anchors |-> << BookNow8 >>] >>) >>) :
            c \in SeqsUpTo(CellPool, MaxCells)}
    \cup {Doc(<<>>, << Container(ContainerId,
                << [links |-> <<>>, header |-> Str("Court 1"), tds |-> <<>>, anchors |-> a] >>) >>) :
            a \in SeqsUpTo(AnchorPool, MaxAnchors)}

\* documents that hold the results table and the card container at once
BothDocs ==
    {Doc(<< Table(TableId, TRUE, rows) >>, << Container(ContainerId, << Court1Card >>) >>) :
        rows \in {<<>>, << SlotRow(<< BookNow8 >>) >>, << Court1Row, SlotRow(<< BookNow8 >>) >>}}

RawDocs == TableDocs \cup CardDocs \cup BothDocs

----------------------------------------------------------------------------
(* Listings rendered by the vendor in either layout.  A facility is        *)
(* [fmid, label, location, anchors]; fmid, label and location are Null     *)
(* when the page shows no such element.                                    *)

FacilityPool ==
    [fmid : {Null, Str("296964")}, label : {Null, Str(""), Str("Court 1")},
     location : {Null, Str("Laguna Park")}, anchors : {<< BookNow8, Unavailable9 >>}]
    \cup {[fmid |-> Str("7"), label |-> Str("Court 2"), location |-> Null, anchors |-> <<>>]}

Listings == SeqsUpTo(FacilityPool, MaxFacilities)

ItemLinks(f) ==
    IF f.fmid = Null THEN <<>> ELSE << "iteminfo.html?Module=FR&FMID=" \o f.fmid.s >>

LocationTds(f) ==
    IF f.location = Null THEN <<>>
    ELSE << [title |-> "Location Description", text |-> f.location.s] >>

\* the table layout: a facility row (its label cells, the details link) and
\* the slot row that follows it
RECURSIVE RenderRows(_)
RenderRows(facilities) ==
    IF facilities = <<>> THEN <<>>
    ELSE LET f == Head(facilities)
         IN  << FacilityRow(
                    (IF f.label = Null THEN <<>>
                     ELSE << [title |-> "Facility Description", text |-> f.label.s] >>)
                    \o LocationTds(f)
                    \o << [title |-> "Class", text |-> "Tennis Court"] >>,
                    ItemLinks(f)),
                SlotRow(f.anchors) >>
             \o RenderRows(Tail(facilities))

RenderTable(facilities) == Doc(<< Table(TableId, TRUE, RenderRows(facilities)) >>, <<>>)

\* the card layout: one .result-content card per facility
RenderCard(facilities) ==
    Doc(<<>>,
        << Container(ContainerId,
              [k \in 1..Len(facilities) |->
                  [links   |-> ItemLinks(facilities[k]),
                   header  |-> facilities[k].label,
                   tds     |-> LocationTds(facilities[k]),
                   anchors |-> facilities[k].anchors]]) >>)

----------------------------------------------------------------------------
(* fetch_schedule requests: the date, the query mode and the WebTrac part  *)
(* of config_webtrac.json (site -> base_url, Null for a site without one). *)

Requests ==
    { [date_ymd |-> "2025-10-06", query_mode |-> "burlingame"],
      [date_ymd |-> "2025-10-13", query_mode |-> "san_mateo"],
      [date_ymd |-> "2025-10-13", query_mode |-> "albany"] }

Sites == {"Burlingame", "San Mateo", "Albany"}

\* a base URL: scheme, the dot-separated labels of the host, trailing slashes
Url(scheme, labels, tail) == [scheme |-> scheme, labels |-> labels, tail |-> tail]

RECURSIVE JoinDots(_)
JoinDots(labels) ==
    IF Len(labels) = 1 THEN labels[1] ELSE labels[1] \o "." \o JoinDots(Tail(labels))

UrlText(u) == u.scheme \o "//" \o JoinDots(u.labels) \o u.tail

Configs ==
    { [site \in Sites |->
        CASE site = "Burlingame" -> Url("https:", << "caburlingameweb", "myvscloud", "com" >>, "")
          [] site = "San Mateo"  -> Url("https:", << "webtrac", "cityofsanmateo", "org" >>, "/")
          [] OTHER               -> Null] }

----------------------------------------------------------------------------
(* The state machine: one document, one operation applied to it.           *)

ListingInit ==
    /\ \/ /\ html \in RawDocs
          /\ listing = <<>>
          /\ shape = "raw"
       \/ /\ listing \in Listings
          /\ shape \in {"table", "card"}
          /\ html = IF shape = "table" THEN RenderTable(listing) ELSE RenderCard(listing)
    /\ pc = "ready"
    /\ op = "none"
    /\ items = <<>>
    /\ calls = <<>>
    /\ request = Null
    /\ payload = Null
    /\ result = Null

\* parse_listing_table_schedules(html)
CallTable ==
    /\ pc = "ready"
    /\ items' = parse_listing_table_schedules(html)
    /\ calls' = << "table" >>
    /\ op' = "table"
    /\ pc' = "done"
    /\ UNCHANGED <<html, listing, shape, request, payload, result>>

\* parse_listing_group_schedules(html)
CallGroup ==
    /\ pc = "ready"
    /\ items' = parse_listing_group_schedules(html)
    /\ calls' = << "group" >>
    /\ op' = "group"
    /\ pc' = "done"
    /\ UNCHANGED <<html, listing, shape, request, payload, result>>

\* main() of parse_webtrac_listing.py on a file holding html
ListingMain ==
    /\ pc = "ready"
    /\ LET got == TableThenGroup(html)
       IN  items' = got.items /\ calls' = got.calls
    /\ op' = "main"
    /\ pc' = "done"
    /\ UNCHANGED <<html, listing, shape, request, payload, result>>

\* fetch_schedule(date_ymd, query_mode=...) with the browser returning html;
\* a site without base_url makes playwright_fetch_listing_html raise
FetchSchedule ==
    /\ pc = "ready"
    /\ LET parsed == TableThenGroup(html)
       IN  \E r \in Requests, config \in Configs :
              LET entry == config[SiteOf(r.query_mode)]
              IN  /\ request' = [date_ymd |-> r.date_ymd, query_mode |-> r.query_mode,
                                 config |-> config]
                  /\ IF entry = Null
                     THEN /\ pc' = "raised"
                          /\ UNCHANGED <<items, calls>>
                     ELSE LET got == TaggedAll(parsed, r.date_ymd,
                                               SourceTag(rstrip_slash(UrlText(entry))))
                          IN  /\ pc' = "done"
                              /\ items' = got.items
                              /\ calls' = got.calls
    /\ op' = "fetch_schedule"
    /\ UNCHANGED <<html, listing, shape, payload, result>>

ListingNext == CallTable \/ CallGroup \/ ListingMain \/ FetchSchedule

SpecListing == ListingInit /\ [][ListingNext]_vars

----------------------------------------------------------------------------
(* Properties of the listing normalizers.                                  *)

\* the table normalizer, respectively the card normalizer, has returned
TableDone == pc = "done" /\ op = "table"

GroupDone == pc = "done" /\ op = "group"

\* the tables of html that carry the id of the results table
ResultTables == SelectSeq(html.tables, LAMBDA t : t.id = TableId)

\* the direct rows of the body the table normalizer reads, <<>> without one
BodyRows ==
    IF ResultTables # <<>> /\ ResultTables[1].tbody THEN ResultTables[1].rows ELSE <<>>

\* a row that holds a td of class label-cell
HasLabelCell(row) == row.cells # <<>>

\* a label-cell row that the pairing does not consume as the slot row of the
\* block before it
RECURSIVE StartsBlock(_, _)
StartsBlock(rows, i) ==
    /\ i \in 1..Len(rows)
    /\ HasLabelCell(rows[i])
    /\ (i = 1 \/ ~StartsBlock(rows, i - 1))

\* the ascending list of the members of a set of row numbers
RECURSIVE Ascending(_)
Ascending(S) ==
    IF S = {} THEN <<>>
    ELSE LET m == CHOOSE x \in S : \A y \in S : x <= y
         IN  <<m>> \o Ascending(S \ {m})

LabelRows == Ascending({i \in 1..Len(BodyRows) : HasLabelCell(BodyRows[i])})

BlockRows == Ascending({i \in 1..Len(BodyRows) : StartsBlock(BodyRows, i)})

\* the cart buttons of the row after row i, none when row i is the last
ButtonsAfter(i) == IF i + 1 <= Len(BodyRows) THEN BodyRows[i + 1].anchors ELSE <<>>

\* the two signals of a cart button
SuccessSignals(a) ==
    Contains(Lower(a.class), "success") /\ Contains(Lower(a.tooltip), "book now")

ErrorSignals(a) ==
    Contains(Lower(a.class), "error") /\ Contains(Lower(a.tooltip), "unavailable")

\* the text of the first span of a cart button, Null without a span
FirstSpanText(a) ==
    IF \E k \in 1..Len(a.kids) : a.kids[k].span
    THEN Str(Strip(a.kids[CHOOSE k \in 1..Len(a.kids) :
                     a.kids[k].span /\ \A j \in 1..(k - 1) : ~a.kids[j].span].text))
    ELSE Null

FirstSpanIsSlot(a) == FirstSpanText(a) # Null /\ TIME_RE_fullmatch(FirstSpanText(a).s)

OwnTextIsSlot(a) == TIME_RE_fullmatch(get_text(a.kids))

OwnTexts(anchors) == [k \in 1..Len(anchors) |-> get_text(anchors[k].kids)]

FirstSpanTexts(anchors) == [k \in 1..Len(anchors) |-> FirstSpanText(anchors[k]).s]

\* the members of a list
Range(seq) == {seq[k] : k \in 1..Len(seq)}

\* C1: no slot text is in both available_slots and unavailable_slots of a
\* record returned by parse_listing_table_schedules or
\* parse_listing_group_schedules
C1_SlotInOneListOnly ==
    (TableDone \/ GroupDone) =>
        \A k \in 1..Len(items) :
            Range(items[k].available_slots) \cap Range(items[k].unavailable_slots) = {}

\* C2 as claimed: in the slot row of the first facility block, the buttons with
\* a success class and a 'book now' tooltip whose own text is a slot give
\* available_slots, and every button with an error class and an 'unavailable'
\* tooltip whose first span is a slot gives unavailable_slots, in document order
C2_EveryErrorButtonListed ==
    (TableDone /\ BlockRows # <<>>) =>
        LET buttons == ButtonsAfter(BlockRows[1])
        IN  /\ items[1].available_slots =
                  OwnTexts(SelectSeq(buttons, LAMBDA a : SuccessSignals(a) /\ OwnTextIsSlot(a)))
            /\ items[1].unavailable_slots =
                  FirstSpanTexts(SelectSeq(buttons,
                                           LAMBDA a : ErrorSignals(a) /\ FirstSpanIsSlot(a)))

\* C2 amended: as C2, but a button that meets the success pair is never read
\* as unavailable: unavailable_slots holds the first-span slots of the buttons
\* that meet the error pair and do not meet the success pair; a button that
\* meets neither pair is in neither list; each list is in document order
C2_SuccessPairFirst ==
    (TableDone /\ BlockRows # <<>>) =>
        LET buttons == ButtonsAfter(BlockRows[1])
        IN  /\ items[1].available_slots =
                  OwnTexts(SelectSeq(buttons, LAMBDA a : SuccessSignals(a) /\ OwnTextIsSlot(a)))
            /\ items[1].unavailable_slots =
                  FirstSpanTexts(SelectSeq(buttons,
                      LAMBDA a : ErrorSignals(a) /\ ~SuccessSignals(a) /\ FirstSpanIsSlot(a)))

\* C2 witness: a slot row with a button that meets both pairs and whose first
\* span is a slot, next to a button listed as unavailable
C2_Witness ==
    /\ TableDone /\ BlockRows # <<>>
    /\ \E a \in Range(ButtonsAfter(BlockRows[1])) :
          SuccessSignals(a) /\ ErrorSignals(a) /\ FirstSpanIsSlot(a)
    /\ items[1].unavailable_slots # <<>>

\* the record the table normalizer builds for a block that starts at row i
BlockRecord(i) ==
    LET got   == LabelCells(BodyRows[i].cells, 1, [facility |-> Null, location |-> Null])
        slots == CartButtons(ButtonsAfter(i), 1, NoSlots)
    IN  [fmid              |-> TableFmid(BodyRows[i]),
         label             |-> got.facility,
         location          |-> got.location,
         available_slots   |-> slots.available,
         unavailable_slots |-> slots.unavailable]

\* C3: parse_listing_table_schedules returns exactly one record per
\* direct tbody row that holds a label-cell td, in document order, with the
\* slots of the row right after it
C3_RecordPerLabelRow ==
    TableDone => items = [k \in 1..Len(LabelRows) |-> BlockRecord(LabelRows[k])]

\* C6: without the table frwebsearch_output_table or without its tbody,
\* parse_listing_table_schedules returns the empty list, and without the
\* container frwebsearch_nextgencontrolsgroup parse_listing_group_schedules
\* returns the empty list; neither raises
C6_EmptyWithoutStructure ==
    /\ op \in {"table", "group"} => pc = "done"
    /\ (TableDone /\ (ResultTables = <<>> \/ ~ResultTables[1].tbody)) => items = <<>>
    /\ (GroupDone /\ \A k \in 1..Len(html.containers) : html.containers[k].id # ContainerId)
            => items = <<>>

\* C6 witness: a document whose only table has another id and holds facility
\* rows, normalized to the empty list
C6_Witness ==
    /\ TableDone
    /\ ResultTables = <<>>
    /\ html.tables # <<>>
    /\ \E i \in 1..Len(html.tables[1].rows) : HasLabelCell(html.tables[1].rows[i])
    /\ items = <<>>

Titled(cells, title) == SelectSeq(cells, LAMBDA td : td.title = title)

\* C8: the label (location) of a record is the text of the first
\* 'Facility Description' ('Location Description') cell of its facility row,
\* whatever that text is, and null without such a cell
C8_FirstCellWins ==
    (TableDone /\ BlockRows # <<>>) =>
        LET cells == BodyRows[BlockRows[1]].cells
            first(title) == IF Titled(cells, title) = <<>> THEN Null
                            ELSE Str(Strip(Titled(cells, title)[1].text))
        IN  /\ items[1].label = first("Facility Description")
            /\ items[1].location = first("Location Description")

\* the first label of the host of the base URL of the requested site
RequestedHostLabel == request.config[SiteOf(request.query_mode)].labels[1]

\* C4: the assembler runs the table normalizer first and the card normalizer
\* if and only if the table normalizer returned no facility; every record
\* fetch_schedule returns carries the requested date and the source tag of
\* the host of the site's base URL, its other fields as the normalizer gave them
C4_TableFirstThenTagged ==
    /\ (pc = "done" /\ op \in {"main", "fetch_schedule"}) =>
          /\ calls \in {<< "table" >>, << "table", "group" >>}
          /\ calls = << "table", "group" >> <=> parse_listing_table_schedules(html) = <<>>
    /\ (pc = "done" /\ op = "main") =>
          items = IF calls = << "table" >> THEN parse_listing_table_schedules(html)
                  ELSE parse_listing_group_schedules(html)
    /\ (pc = "done" /\ op = "fetch_schedule") =>
          LET plain == IF calls = << "table" >> THEN parse_listing_table_schedules(html)
                       ELSE parse_listing_group_schedules(html)
          IN  /\ Len(items) = Len(plain)
              /\ \A k \in 1..Len(items) :
                    /\ DOMAIN items[k] = DOMAIN plain[k] \cup {"date", "source"}
                    /\ \A f \in DOMAIN plain[k] : items[k][f] = plain[k][f]
                    /\ items[k].date = request.date_ymd
                    /\ items[k].source = RequestedHostLabel \o "_webtrac"

\* C4 witness: fetch_schedule fell back to the card normalizer and tagged its
\* facilities
C4_Witness ==
    /\ pc = "done" /\ op = "fetch_schedule"
    /\ calls = << "table", "group" >>
    /\ items # <<>>
    /\ items[1].source = "webtrac_webtrac"
    /\ items[1].date = "2025-10-13"

\* C5: the same facilities rendered as the table layout and as the card
\* layout are normalized to the same list of records
C5_ShapeIndependent ==
    /\ (TableDone /\ shape = "table") =>
          items = parse_listing_group_schedules(RenderCard(listing))
    /\ (GroupDone /\ shape = "card") =>
          items = parse_listing_table_schedules(RenderTable(listing))

----------------------------------------------------------------------------
(* JSON date grouping: parse_schedule_data of the Xplor and the Menlo Park *)
(* fetchers (the two methods are the same text).  A JSON value is Null,    *)
(* Str(s), Num(n), List(l) with l a sequence of values, or Dict(d) with d  *)
(* a function from keys to values.                                         *)

Num(n) == [t |-> "num", n |-> n]

List(l) == [t |-> "list", l |-> l]

Dict(d) == [t |-> "dict", d |-> d]

\* bool(v)
PyTruthy(v) ==
    CASE v.t = "str"  -> v.s # ""
      [] v.t = "num"  -> v.n # 0
      [] v.t = "list" -> v.l # <<>>
      [] v.t = "dict" -> DOMAIN v.d # {}
      [] OTHER        -> FALSE

\* v can be a dict key
Hashable(v) == v.t \in {"null", "str", "num"}

\* key in v, for a dict or a list v
HasKey(v, key) ==
    CASE v.t = "dict" -> key \in DOMAIN v.d
      [] v.t = "list" -> \E k \in 1..Len(v.l) : v.l[k] = Str(key)
      [] OTHER        -> FALSE

\* date_fields
DateFields == << "Date", "StartDate", "date", "startDate", "StartTime" >>

DigitChars == "0123456789"

DigitVal(c) == (CHOOSE i \in 1..Len(DigitChars) : Ch(DigitChars, i) = c) - 1

\* int(s) of a text of digits
RECURSIVE ToInt(_)
ToInt(s) ==
    IF s = "" THEN 0 ELSE 10 * ToInt(SubSeq(s, 1, Len(s) - 1)) + DigitVal(Ch(s, Len(s)))

\* the decimal digits of n, at least w of them
RECURSIVE Padded(_, _)
Padded(n, w) ==
    IF n < 10 /\ w <= 1 THEN Ch(DigitChars, n + 1)
    ELSE Padded(n \div 10, w - 1) \o Ch(DigitChars, (n % 10) + 1)

AllDigits(s) == \A k \in 1..Len(s) : IsDigit(Ch(s, k))

\* %m : 1[0-2]|0[1-9]|[1-9]
IsMonthText(s) ==
    \/ Len(s) = 2 /\ Ch(s, 1) = "1" /\ Ch(s, 2) \in {"0", "1", "2"}
    \/ Len(s) = 2 /\ Ch(s, 1) = "0" /\ IsDigit(Ch(s, 2)) /\ Ch(s, 2) # "0"
    \/ Len(s) = 1 /\ IsDigit(s) /\ s # "0"

\* %d : 3[01]|[12]\d|0[1-9]|[1-9]| [1-9]
IsDayText(s) ==
    \/ Len(s) = 2 /\ Ch(s, 1) = "3" /\ Ch(s, 2) \in {"0", "1"}
    \/ Len(s) = 2 /\ Ch(s, 1) \in {"1", "2"} /\ IsDigit(Ch(s, 2))
    \/ Len(s) = 2 /\ Ch(s, 1) \in {"0", " "} /\ IsDigit(Ch(s, 2)) /\ Ch(s, 2) # "0"
    \/ Len(s) = 1 /\ IsDigit(s) /\ s # "0"

\* %y : \d\d
IsYearText(s) == Len(s) = 2 /\ AllDigits(s)

\* the year of a two-digit year: 69..99 are 19xx, 00..68 are 20xx
FullYear(yy) == IF yy <= 68 THEN 2000 + yy ELSE 1900 + yy

IsLeap(y) == y % 4 = 0 /\ (y % 100 # 0 \/ y % 400 = 0)

DaysIn(m, y) ==
    IF m = 2 THEN (IF IsLeap(y) THEN 29 ELSE 28)
    ELSE IF m \in {4, 6, 9, 11} THEN 30 ELSE 31

\* datetime.strptime(s, '%m/%d/%y'): the date, or ok = FALSE for a ValueError
strptime_mdy(s) ==
    LET parts == Split(s, "/")
    IN  IF /\ Len(parts) = 3
           /\ IsMonthText(parts[1]) /\ IsDayText(parts[2]) /\ IsYearText(parts[3])
        THEN LET m == ToInt(parts[1])
                 d == ToInt(Strip(parts[2]))
                 y == FullYear(ToInt(parts[3]))
             IN  [ok |-> d <= DaysIn(m, y), y |-> y, m |-> m, d |-> d]
        ELSE [ok |-> FALSE, y |-> 0, m |-> 0, d |-> 0]

\* date_obj.strftime('%Y-%m-%d')
strftime_ymd(dt) == Padded(dt.y, 4) \o "-" \o Padded(dt.m, 2) \o "-" \o Padded(dt.d, 2)

\* the date of one field value: the body of "for field in date_fields" once
\* the field is in the object
DateOfValue(date_value) ==
    IF date_value.t = "str"
    THEN IF Contains(date_value.s, "T") THEN Str(Split(date_value.s, "T")[1])
         ELSE IF Contains(date_value.s, "/")
         THEN IF strptime_mdy(date_value.s).ok
              THEN Str(strftime_ymd(strptime_mdy(date_value.s)))
              ELSE date_value
         ELSE date_value
    ELSE IF date_value.t = "dict" /\ "date" \in DOMAIN date_value.d
    THEN date_value.d["date"]
    ELSE Null

\* AvailabilityDate without the break: the last field of date_fields that is
\* in the object decides
AvailabilityDate_NoBreak(availability) ==
    LET present == SelectSeq(DateFields, LAMBDA f : f \in DOMAIN availability.d)
    IN  IF present = <<>> THEN Null ELSE DateOfValue(availability.d[present[Len(present)]])

\* availability_date of a dict availability: the first field of date_fields
\* that is in the object decides, then the loop breaks
AvailabilityDate(availability) ==
    LET present == SelectSeq(DateFields, LAMBDA f : f \in DOMAIN availability.d)
    IN  IF present = <<>> THEN Null ELSE DateOfValue(availability.d[present[1]])

\* the printable ASCII characters, the backquote left out, in code-point order
AsciiChars ==
    " !\"#$%&'()*+,-./0123456789:;<=>?@ABCDEFGHIJKLMNOPQRSTUVWXYZ[\\]^_abcdefghijklmnopqrstuvwxyz{|}~"

Ord == [c \in {Ch(AsciiChars, i) : i \in 1..Len(AsciiChars)} |->
            CHOOSE i \in 1..Len(AsciiChars) : Ch(AsciiChars, i) = c]

\* a < b for two str
RECURSIVE StrLess(_, _)
StrLess(a, b) ==
    IF b = "" THEN FALSE
    ELSE IF a = "" THEN TRUE
    ELSE IF Ch(a, 1) = Ch(b, 1) THEN StrLess(SubSeq(a, 2, Len(a)), SubSeq(b, 2, Len(b)))
    ELSE Ord[Ch(a, 1)] < Ord[Ch(b, 1)]

\* a < b for two dict keys of one type
KeyLess(a, b) == IF a.t = "str" THEN StrLess(a.s, b.s) ELSE a.n < b.n

\* GroupLoop putting an object at the front of the list of its date
RECURSIVE GroupLoop_Prepend(_, _, _)
GroupLoop_Prepend(availabilities, k, by_date) ==
    IF k > Len(availabilities) THEN [raised |-> FALSE, by_date |-> by_date]
    ELSE LET availability == availabilities[k]
             date == IF availability.t = "dict" THEN AvailabilityDate(availability) ELSE Null
             at   == {i \in 1..Len(by_date) : by_date[i].date = date}
         IN  IF availability.t # "dict" \/ ~PyTruthy(date)
             THEN GroupLoop_Prepend(availabilities, k + 1, by_date)
             ELSE IF ~Hashable(date) THEN [raised |-> TRUE, by_date |-> by_date]
             ELSE IF at = {}
             THEN GroupLoop_Prepend(availabilities, k + 1,
                            Append(by_date, [date |-> date, objects |-> << availability >>]))
             ELSE GroupLoop_Prepend(availabilities, k + 1,
                            [by_date EXCEPT ![CHOOSE i \in at : TRUE].objects =
                                                << availability >> \o @])

\* availabilities_by_date after the grouping loop has read availabilities[k..],
\* as the list of its (date, objects) entries in insertion order; raised when
\* a date that is not hashable is looked up
RECURSIVE GroupLoop(_, _, _)
GroupLoop(availabilities, k, by_date) ==
    IF k > Len(availabilities) THEN [raised |-> FALSE, by_date |-> by_date]
    ELSE LET availability == availabilities[k]
             date == IF availability.t = "dict" THEN AvailabilityDate(availability) ELSE Null
             at   == {i \in 1..Len(by_date) : by_date[i].date = date}
         IN  IF availability.t # "dict" \/ ~PyTruthy(date)
             THEN GroupLoop(availabilities, k + 1, by_date)
             ELSE IF ~Hashable(date) THEN [raised |-> TRUE, by_date |-> by_date]
             ELSE IF at = {}
             THEN GroupLoop(availabilities, k + 1,
                            Append(by_date, [date |-> date, objects |-> << availability >>]))
             ELSE GroupLoop(availabilities, k + 1,
                            [by_date EXCEPT ![CHOOSE i \in at : TRUE].objects =
                                                Append(@, availability)])

\* Sorted leaving the entries in insertion order
Sorted_InsertionOrder(entries) == entries

\* sorted(availabilities_by_date.items()): the keys are distinct, so the
\* entries are ordered by key alone
RECURSIVE Sorted(_)
Sorted(entries) ==
    IF entries = <<>> THEN <<>>
    ELSE LET least == CHOOSE i \in 1..Len(entries) :
                          \A j \in 1..Len(entries) : ~KeyLess(entries[j].date, entries[i].date)
         IN  << entries[least] >>
             \o Sorted(SelectSeq(entries, LAMBDA e : e.date # entries[least].date))

\* min(keys) / max(keys), None for no key
MinKey(entries) == IF entries = <<>> THEN Null ELSE Sorted(entries)[1].date

MaxKey(entries) == IF entries = <<>> THEN Null ELSE Sorted(entries)[Len(entries)].date

\* the availabilities of the days of bookingDays that have some
RECURSIVE BookingDays(_)
BookingDays(days) ==
    IF days = <<>> THEN <<>>
    ELSE (IF HasKey(Head(days), "availabilities")
          THEN Head(days).d["availabilities"].l ELSE <<>>)
         \o BookingDays(Tail(days))

\* Availabilities looking for bookingDays before availabilities
Availabilities_BookingDaysFirst(schedule_data) ==
    IF schedule_data.t = "dict"
    THEN IF "bookingDays" \in DOMAIN schedule_data.d
         THEN BookingDays(schedule_data.d["bookingDays"].l)
         ELSE IF "availabilities" \in DOMAIN schedule_data.d
         THEN schedule_data.d["availabilities"].l
         ELSE << schedule_data >>
    ELSE schedule_data.l

\* the availabilities list parse_schedule_data extracts from the response
Availabilities(schedule_data) ==
    IF schedule_data.t = "dict"
    THEN IF "availabilities" \in DOMAIN schedule_data.d
         THEN schedule_data.d["availabilities"].l
         ELSE IF "bookingDays" \in DOMAIN schedule_data.d
         THEN BookingDays(schedule_data.d["bookingDays"].l)
         ELSE << schedule_data >>
    ELSE schedule_data.l

Raised(exc) == [kind |-> "raised", exc |-> exc]

\* parse_schedule_data without the test for an error key
parse_schedule_data_Reprocess(schedule_data) ==
    LET availabilities == Availabilities(schedule_data)
        loop == GroupLoop(availabilities, 1, <<>>)
        keys == {loop.by_date[i].date.t : i \in 1..Len(loop.by_date)}
    IN  IF availabilities = <<>>
        THEN [kind |-> "error", error |-> "No availability data found in response"]
        ELSE IF loop.raised THEN Raised("TypeError")
        ELSE IF Cardinality(keys) > 1 THEN Raised("TypeError")
        ELSE [kind |-> "grouped",
              schedule_data |->
                  [k \in 1..Len(loop.by_date) |->
                      [date |-> Sorted(loop.by_date)[k].date,
                       availabilities |-> Sorted(loop.by_date)[k].objects,
                       availability_count |-> Len(Sorted(loop.by_date)[k].objects)]],
              total_availabilities |-> Len(availabilities),
              total_dates |-> Len(loop.by_date),
              date_range |-> [start |-> MinKey(loop.by_date),
                              end   |-> MaxKey(loop.by_date)]]

\* parse_schedule_data(schedule_data): kind "input" is the response handed
\* back as it came, "error" the {"error": ...} dict, "grouped" the schedule
parse_schedule_data(schedule_data) ==
    IF HasKey(schedule_data, "error") THEN [kind |-> "input", value |-> schedule_data]
    ELSE LET availabilities == Availabilities(schedule_data)
             loop == GroupLoop(availabilities, 1, <<>>)
             keys == {loop.by_date[i].date.t : i \in 1..Len(loop.by_date)}
         IN  IF availabilities = <<>>
             THEN [kind |-> "error", error |-> "No availability data found in response"]
             ELSE IF loop.raised THEN Raised("TypeError")
             ELSE IF Cardinality(keys) > 1 THEN Raised("TypeError")
             ELSE [kind |-> "grouped",
                   schedule_data |->
                       [k \in 1..Len(loop.by_date) |->
                           [date |-> Sorted(loop.by_date)[k].date,
                            availabilities |-> Sorted(loop.by_date)[k].objects,
                            availability_count |-> Len(Sorted(loop.by_date)[k].objects)]],
                   total_availabilities |-> Len(availabilities),
                   total_dates |-> Len(loop.by_date),
                   date_range |-> [start |-> MinKey(loop.by_date),
                                   end   |-> MaxKey(loop.by_date)]]

\* date_fields of parse_agenda_data
EventDateFields == << "eventdate", "localDate", "date", "start", "event_date" >>

\* the date of one field value of an event: a text is cut before its first
\* 'T' or taken as it is, a dict gives its 'date'
EventDateOfValue(date_value) ==
    IF date_value.t = "str"
    THEN IF Contains(date_value.s, "T") THEN Str(Split(date_value.s, "T")[1])
         ELSE date_value
    ELSE IF date_value.t = "dict" /\ "date" \in DOMAIN date_value.d
    THEN date_value.d["date"]
    ELSE Null

\* event_date of a dict event: the first field of date_fields that is in the
\* event decides, then the loop breaks
EventDate(event) ==
    LET present == SelectSeq(EventDateFields, LAMBDA f : f \in DOMAIN event.d)
    IN  IF present = <<>> THEN Null ELSE EventDateOfValue(event.d[present[1]])

\* events_by_date after the grouping loop of parse_agenda_data has read
\* events[k..]
RECURSIVE EventLoop(_, _, _)
EventLoop(events, k, by_date) ==
    IF k > Len(events) THEN [raised |-> FALSE, by_date |-> by_date]
    ELSE LET event == events[k]
             date  == IF event.t = "dict" THEN EventDate(event) ELSE Null
             at    == {i \in 1..Len(by_date) : by_date[i].date = date}
         IN  IF event.t # "dict" \/ ~PyTruthy(date)
             THEN EventLoop(events, k + 1, by_date)
             ELSE IF ~Hashable(date) THEN [raised |-> TRUE, by_date |-> by_date]
             ELSE IF at = {}
             THEN EventLoop(events, k + 1,
                            Append(by_date, [date |-> date, objects |-> << event >>]))
             ELSE EventLoop(events, k + 1,
                            [by_date EXCEPT ![CHOOSE i \in at : TRUE].objects =
                                                Append(@, event)])

\* the events list parse_agenda_data extracts from the response
Events(calendar_data) ==
    IF calendar_data.t = "dict"
    THEN IF "events" \in DOMAIN calendar_data.d THEN calendar_data.d["events"].l
         ELSE IF "schedules" \in DOMAIN calendar_data.d THEN calendar_data.d["schedules"].l
         ELSE IF "data" \in DOMAIN calendar_data.d THEN calendar_data.d["data"].l
         ELSE << calendar_data >>
    ELSE calendar_data.l

\* parse_agenda_data(calendar_data): kind "input" is the response handed back
\* as it came, "error" the {"error": ...} dict, "agenda" the grouped agenda
parse_agenda_data(calendar_data) ==
    IF HasKey(calendar_data, "error") THEN [kind |-> "input", value |-> calendar_data]
    ELSE LET events == Events(calendar_data)
             loop == EventLoop(events, 1, <<>>)
             keys == {loop.by_date[i].date.t : i \in 1..Len(loop.by_date)}
         IN  IF events = <<>>
             THEN [kind |-> "error", error |-> "No events found in calendar data"]
             ELSE IF loop.raised THEN Raised("TypeError")
             ELSE IF Cardinality(keys) > 1 THEN Raised("TypeError")
             ELSE [kind |-> "agenda",
                   agenda_data |->
                       [k \in 1..Len(loop.by_date) |->
                           [date |-> Sorted(loop.by_date)[k].date,
                            events |-> Sorted(loop.by_date)[k].objects,
                            event_count |-> Len(Sorted(loop.by_date)[k].objects)]],
                   total_events |-> Len(events),
                   total_dates |-> Len(loop.by_date),
                   date_range |-> [start |-> MinKey(loop.by_date),
                                   end   |-> MaxKey(loop.by_date)]]

----------------------------------------------------------------------------
(* The responses parse_schedule_data is run on.                            *)

MaxFields == 2

MaxObjects == 3

DateValues ==
    { Str("2025-10-13"), Str("2025-10-14T09:00:00"), Str("10/13/25"), Str("1/5/99"),
      Str("2/30/25"), Str("10/13/2025"), Str(""), Null, Num(20251013),
      Dict("date" :> Str("2025-10-12")), Dict("date" :> List(<< Str("2025-10-12") >>)) }

\* the objects with at most MaxFields of the date fields, each of any value
FieldObjects ==
    {Dict(d) : d \in UNION {[K -> DateValues] :
                    K \in {F \in SUBSET {DateFields[i] : i \in 1..Len(DateFields)} :
                              Cardinality(F) <= MaxFields}}}

ObjectPool ==
    { Dict(("Date" :> Str("2025-10-13T00:00:00Z")) @@ ("Title" :> Str("A"))),
      Dict(("Date" :> Str("2025-10-14T00:00:00Z")) @@ ("Title" :> Str("B"))),
      Dict(("StartTime" :> Str("10/13/25")) @@ ("Title" :> Str("C"))),
      Dict("Title" :> Str("D")),
      Dict(("Date" :> Null) @@ ("StartTime" :> Str("2025-10-14T08:00:00"))),
      Str("note") }

MaxEvents == 2

EventPool ==
    { Dict(("eventdate" :> Str("2025-10-14T00:00:00.000Z")) @@ ("title" :> Str("E"))),
      Dict(("localDate" :> Str("2025-10-13")) @@ ("start" :> Str("2025-10-15T08:00:00"))),
      Dict("date" :> Str("10/13/25")),
      Dict("start" :> Dict("date" :> Str("2025-10-13"))),
      Dict("title" :> Str("F")) }

\* the value of a top-level key that holds one dated object
ShapeValue(key, day) ==
    IF key = "bookingDays"
    THEN List(<< Dict("availabilities" :> List(<< Dict("date" :> Str(day)) >>)) >>)
    ELSE List(<< Dict("date" :> Str(day)) >>)

\* the responses with two of the top-level keys, each with its own day
TwoShapes ==
    {Dict((ks[1] :> ShapeValue(ks[1], "2025-10-13")) @@ (ks[2] :> ShapeValue(ks[2], "2025-10-14"))) :
        ks \in {p \in {"events", "schedules", "data", "availabilities", "bookingDays"}
                      \X {"events", "schedules", "data", "availabilities", "bookingDays"} :
                   p[1] # p[2]}}

Payloads ==
    {Dict("availabilities" :> List(<< o >>)) : o \in FieldObjects}
    \cup {Dict("availabilities" :> List(l)) : l \in SeqsUpTo(ObjectPool, MaxObjects)}
    \cup { Dict("error" :> Str("HTTP 500")),
           Dict(("error" :> Str("partial")) @@
                ("availabilities" :> List(<< Dict("Date" :> Str("2025-10-13")) >>))),
           List(<< Dict("Date" :> Str("2025-10-14")), Dict("date" :> Str("2025-10-13")) >>),
           Dict("bookingDays" :> List(<<
                Dict("availabilities" :> List(<< Dict("Date" :> Str("2025-10-14")) >>)),
                Dict("label" :> Str("closed")),
                Dict("availabilities" :> List(<< Dict("StartDate" :> Str("10/13/25")),
                                                 Dict("Date" :> Str("2025-10-14T07:00:00")) >>)) >>)),
           Dict(("StartTime" :> Str("2025-10-13T08:00:00")) @@ ("Title" :> Str("Court 1"))) }
    \cup {Dict(key :> List(l)) : key \in {"events", "schedules", "data"},
                                 l \in SeqsUpTo(EventPool, MaxEvents)}
    \cup TwoShapes

GroupingInit ==
    /\ payload \in Payloads
    /\ result = Null
    /\ pc = "ready"
    /\ op = "none"
    /\ html = Doc(<<>>, <<>>)
    /\ listing = <<>>
    /\ shape = "raw"
    /\ items = <<>>
    /\ calls = <<>>
    /\ request = Null

\* MenloParkScheduleFetcher.parse_schedule_data of Xplor/xplor_schedule_fetcher.py
XplorParse ==
    /\ pc = "ready"
    /\ result' = parse_schedule_data(payload)
    /\ op' = "xplor"
    /\ pc' = IF result'.kind = "raised" THEN "raised" ELSE "done"
    /\ UNCHANGED <<html, listing, shape, items, calls, request, payload>>

\* MenloParkScheduleFetcher.parse_schedule_data of
\* MenloPark/menlo_park_schedule_fetcher.py
MenloParkParse ==
    /\ pc = "ready"
    /\ result' = parse_schedule_data(payload)
    /\ op' = "menlo_park"
    /\ pc' = IF result'.kind = "raised" THEN "raised" ELSE "done"
    /\ UNCHANGED <<html, listing, shape, items, calls, request, payload>>

\* FacilitronAgendaAnalyzer.parse_agenda_data
FacilitronParse ==
    /\ pc = "ready"
    /\ result' = parse_agenda_data(payload)
    /\ op' = "facilitron"
    /\ pc' = IF result'.kind = "raised" THEN "raised" ELSE "done"
    /\ UNCHANGED <<html, listing, shape, items, calls, request, payload>>

GroupingNext == XplorParse \/ MenloParkParse \/ FacilitronParse

SpecGrouping == GroupingInit /\ [][GroupingNext]_vars

----------------------------------------------------------------------------
(* Properties of the JSON date grouping.                                   *)

\* the priority order of the date fields, as the specification gives it
PriorityOrder == << "Date", "StartDate", "date", "startDate", "StartTime" >>

\* parse_schedule_data has returned the grouped schedule
Grouped == pc = "done" /\ result.kind = "grouped"

\* the objects of the list the response holds
Objects == Range(Availabilities(payload))

\* the number of times an object is in a list
Occurrences(seq, o) == Cardinality({k \in 1..Len(seq) : seq[k] = o})

\* the number of times an object is in the groups of the result
RECURSIVE GroupedTimes(_, _)
GroupedTimes(groups, o) ==
    IF groups = <<>> THEN 0
    ELSE Occurrences(Head(groups).availabilities, o) + GroupedTimes(Tail(groups), o)

\* a field value that holds a date the grouping can use as a key
HoldsDate(v) == PyTruthy(DateOfValue(v)) /\ Hashable(DateOfValue(v))

\* an object one of whose date fields holds a date
HasDate(o) ==
    /\ o.t = "dict"
    /\ \E i \in 1..Len(PriorityOrder) :
          PriorityOrder[i] \in DOMAIN o.d /\ HoldsDate(o.d[PriorityOrder[i]])

\* C9: an availability object is left out of every group if and only if none
\* of its fields Date, StartDate, date, startDate, StartTime holds a
\* resolvable date; such an object causes no error, and every other object is
\* in exactly one group
C9_DroppedIffNoDate ==
    /\ Grouped =>
          \A o \in Objects :
              GroupedTimes(result.schedule_data, o) =
                  IF HasDate(o) THEN Occurrences(Availabilities(payload), o) ELSE 0
    /\ (pc = "raised" /\ op \in {"xplor", "menlo_park"}) => \E o \in Objects : HasDate(o)

\* the value of the first field, in priority order, that an object has
FirstFieldValue(o) ==
    o.d[PriorityOrder[CHOOSE i \in 1..Len(PriorityOrder) :
                          /\ PriorityOrder[i] \in DOMAIN o.d
                          /\ \A j \in 1..(i - 1) : PriorityOrder[j] \notin DOMAIN o.d]]

HasDateField(o) ==
    o.t = "dict" /\ \E i \in 1..Len(PriorityOrder) : PriorityOrder[i] \in DOMAIN o.d

\* key is text cut before its first 'T'
CutAtT(key, text) ==
    /\ key.t = "str"
    /\ ~Contains(key.s, "T")
    /\ Len(key.s) < Len(text)
    /\ SubSeq(text, 1, Len(key.s) + 1) = key.s \o "T"

\* text is a date in M/D/YY form
IsMDY(text) ==
    LET parts == Split(text, "/")
    IN  /\ Len(parts) = 3
        /\ \A k \in 1..3 : parts[k] # "" /\ Len(parts[k]) <= 2 /\ AllDigits(parts[k])
        /\ Len(parts[3]) = 2
        /\ ToInt(parts[1]) \in 1..12
        /\ ToInt(parts[2]) \in 1..DaysIn(ToInt(parts[1]), FullYear(ToInt(parts[3])))

\* key is the YYYY-MM-DD form of the M/D/YY date text
IsoOfMDY(key, text) ==
    LET parts == Split(text, "/")
    IN  /\ key.t = "str"
        /\ Len(key.s) = 10
        /\ Ch(key.s, 5) = "-" /\ Ch(key.s, 8) = "-"
        /\ AllDigits(SubSeq(key.s, 1, 4) \o SubSeq(key.s, 6, 7) \o SubSeq(key.s, 9, 10))
        /\ ToInt(SubSeq(key.s, 1, 4)) = FullYear(ToInt(parts[3]))
        /\ ToInt(SubSeq(key.s, 6, 7)) = ToInt(parts[1])
        /\ ToInt(SubSeq(key.s, 9, 10)) = ToInt(parts[2])

\* the keys of the groups an object is in
KeysOf(o) ==
    {result.schedule_data[k].date : k \in
        {j \in 1..Len(result.schedule_data) :
            o \in Range(result.schedule_data[j].availabilities)}}

\* C10: the grouping key of an object comes from the first field it has in
\* the order Date, StartDate, date, startDate, StartTime: a text with a 'T' is
\* cut before the first 'T', a text in M/D/YY form becomes YYYY-MM-DD, any
\* other text is the key as it is, and a field of lower priority never
\* overrides one of higher priority, also when the higher one gives no key
C10_FirstFieldGivesKey ==
    Grouped =>
        \A o \in {x \in Objects : HasDateField(x)} :
            LET v == FirstFieldValue(o)
            IN  /\ Cardinality(KeysOf(o)) <= 1
                /\ (v.t = "str" /\ Contains(v.s, "T")) =>
                      /\ \A key \in KeysOf(o) : CutAtT(key, v.s)
                      /\ KeysOf(o) = {} => SubSeq(v.s, 1, 1) = "T"
                /\ (v.t = "str" /\ ~Contains(v.s, "T") /\ IsMDY(v.s)) =>
                      /\ KeysOf(o) # {}
                      /\ \A key \in KeysOf(o) : IsoOfMDY(key, v.s)
                /\ (v.t = "str" /\ ~Contains(v.s, "T") /\ ~Contains(v.s, "/")) =>
                      KeysOf(o) = IF v.s = "" THEN {} ELSE {v}
                /\ v.t \in {"null", "num"} => KeysOf(o) = {}

\* C10 witness: an object whose Date is in M/D/YY form and whose StartTime
\* names another day is grouped under the day of its Date
C10_Witness ==
    /\ Grouped
    /\ \E o \in Objects :
          /\ HasDateField(o)
          /\ {"Date", "StartTime"} \subseteq DOMAIN o.d
          /\ o.d["Date"] = Str("10/13/25")
          /\ o.d["StartTime"] = Str("2025-10-14T09:00:00")
          /\ KeysOf(o) = {Str("2025-10-13")}

\* the groups of a result, none for a result that is not a grouping
GroupsOf(r) ==
    IF r.kind = "grouped" THEN r.schedule_data
    ELSE IF r.kind = "agenda" THEN r.agenda_data
    ELSE <<>>

\* the objects and the count of a group
GroupObjects(g) == IF "events" \in DOMAIN g THEN g.events ELSE g.availabilities

GroupCount(g) == IF "events" \in DOMAIN g THEN g.event_count ELSE g.availability_count

\* one of the three functions has returned a grouping
GroupingDone == pc = "done" /\ result.kind \in {"grouped", "agenda"}

\* the list of objects the function that ran extracted from the response
Extracted == IF op = "facilitron" THEN Events(payload) ELSE Availabilities(payload)

\* a str of the form YYYY-MM-DD that names a day of the calendar
IsIsoDate(key) ==
    /\ key.t = "str"
    /\ Len(key.s) = 10
    /\ Ch(key.s, 5) = "-" /\ Ch(key.s, 8) = "-"
    /\ AllDigits(SubSeq(key.s, 1, 4) \o SubSeq(key.s, 6, 7) \o SubSeq(key.s, 9, 10))
    /\ ToInt(SubSeq(key.s, 6, 7)) \in 1..12
    /\ ToInt(SubSeq(key.s, 9, 10)) \in
          1..DaysIn(ToInt(SubSeq(key.s, 6, 7)), ToInt(SubSeq(key.s, 1, 4)))

\* C11: every group of the JSON date grouping has a date key that is an ISO
\* YYYY-MM-DD string, whatever the response
C11_KeysAreIsoDates ==
    GroupingDone => \A k \in 1..Len(GroupsOf(result)) : IsIsoDate(GroupsOf(result)[k].date)

RECURSIVE Flattened(_)
Flattened(groups) ==
    IF groups = <<>> THEN <<>>
    ELSE GroupObjects(Head(groups)) \o Flattened(Tail(groups))

\* C13: the groups parse_schedule_data returns, flattened into one list in
\* group order and grouped again, give the same groups: the same keys, the
\* same objects per key, in the same order (a result without groups flattens
\* to the empty list, which is answered without groups)
C13_RegroupingSameGroups ==
    Grouped =>
        GroupsOf(parse_schedule_data(List(Flattened(result.schedule_data))))
            = result.schedule_data

\* C13 witness: a grouping that moved objects: two objects of one day with an
\* object of an earlier day between them in the response
C13_Witness ==
    /\ Grouped
    /\ Len(Extracted) = 3
    /\ Len(result.schedule_data) = 2
    /\ result.schedule_data[2].availabilities = << Extracted[1], Extracted[3] >>
    /\ Extracted[1] # Extracted[3]
    /\ result.schedule_data[1].availabilities = << Extracted[2] >>

\* the day and the objects of every group, in group order
DatedGroups(groups) ==
    [k \in 1..Len(groups) |-> << groups[k].date, GroupObjects(groups[k]) >>]

\* C28: parse_agenda_data puts a list of objects into the date groups that
\* parse_schedule_data puts the same list into: the same days, with the
\* same objects in each
C28_SameDateGroupsAsXplor ==
    (op = "facilitron" /\ pc = "done" /\ result.kind = "agenda") =>
        LET xplor == parse_schedule_data(List(Events(payload)))
        IN  /\ xplor.kind = "grouped"
            /\ DatedGroups(xplor.schedule_data) = DatedGroups(result.agenda_data)

\* the lists of the days of bookingDays that have availabilities, one after
\* the other
RECURSIVE DayLists(_)
DayLists(days) ==
    IF days = <<>> THEN <<>>
    ELSE (IF Head(days).t = "dict" /\ "availabilities" \in DOMAIN Head(days).d
          THEN Head(days).d["availabilities"].l ELSE <<>>) \o DayLists(Tail(days))

\* the list a response holds under the first of the shapes that it has, the
\* response itself as the one element when it has none of them
FirstShapeList(response, shapes) ==
    LET present == SelectSeq(shapes, LAMBDA key : key \in DOMAIN response.d)
    IN  IF present = <<>> THEN << response >>
        ELSE IF present[1] = "bookingDays" THEN DayLists(response.d["bookingDays"].l)
        ELSE response.d[present[1]].l

\* what a result shows of the list it was made from: its length, the objects
\* of the groups, and the error answer for the empty list
MadeFrom(objects) ==
    /\ result.kind = "error" <=> objects = <<>>
    /\ result.kind = "grouped" => result.total_availabilities = Len(objects)
    /\ result.kind = "agenda" => result.total_events = Len(objects)
    /\ \A k \in 1..Len(GroupsOf(result)) :
          Range(GroupObjects(GroupsOf(result)[k])) \subseteq Range(objects)

\* a response that is a JSON object without an error key has been parsed
ObjectParsed ==
    /\ pc = "done"
    /\ op \in {"xplor", "menlo_park", "facilitron"}
    /\ payload.t = "dict"
    /\ "error" \notin DOMAIN payload.d

C15_ErrorPayloadHandedBack ==
    (/\ pc \in {"done", "raised"}
     /\ op \in {"xplor", "menlo_park", "facilitron"}
     /\ payload.t = "dict" /\ "error" \in DOMAIN payload.d) =>
        /\ pc = "done"
        /\ result = [kind |-> "input", value |-> payload]

\* C15 witness: a response with an error key and with availabilities, handed
\* back by parse_schedule_data
C15_Witness ==
    /\ pc = "done" /\ op = "xplor"
    /\ payload.t = "dict"
    /\ {"error", "availabilities"} \subseteq DOMAIN payload.d
    /\ result.kind = "input"
    /\ result.value = payload

----------------------------------------------------------------------------
(* Venue matching: norm_name, choose_best_match and enrich of              *)
(* enrich_with_places.py.  A distance is a whole number of metres; a score *)
(* is kept as 600 times its value, which makes every score of a whole      *)
(* distance and a whole name score a whole number.                         *)

StopWords == {"tennis", "court", "courts", "park", "recreation", "rec", "center", "centre"}

IsAlnum(c) == IsDigit(c) \/ c \in LowerSet

\* the longest run of \w characters of s that starts at position k
RECURSIVE WordRun(_, _)
WordRun(s, k) ==
    IF k <= Len(s) /\ IsWord(Ch(s, k)) THEN Ch(s, k) \o WordRun(s, k + 1) ELSE ""

\* re.sub(r'\b(tennis|courts?|park|recreation|rec|center|centre)\b', '', s):
\* a match is a whole run of \w characters
RECURSIVE DropStopWords(_)
DropStopWords(s) ==
    IF s = "" THEN ""
    ELSE IF IsWord(Ch(s, 1))
    THEN LET run == WordRun(s, 1)
         IN  (IF run \in StopWords THEN "" ELSE run)
             \o DropStopWords(SubSeq(s, Len(run) + 1, Len(s)))
    ELSE Ch(s, 1) \o DropStopWords(SubSeq(s, 2, Len(s)))

\* s without its leading characters that are not in a-z0-9
RECURSIVE SkipOther(_)
SkipOther(s) ==
    IF s # "" /\ ~IsAlnum(Ch(s, 1)) THEN SkipOther(SubSeq(s, 2, Len(s))) ELSE s

\* re.sub(r'[^a-z0-9]+', ' ', s)
RECURSIVE Collapse(_)
Collapse(s) ==
    IF s = "" THEN ""
    ELSE IF IsAlnum(Ch(s, 1)) THEN Ch(s, 1) \o Collapse(SubSeq(s, 2, Len(s)))
    ELSE " " \o Collapse(SkipOther(s))

\* re.sub(r'\s+', ' ', s)
RECURSIVE Squeeze(_)
Squeeze(s) ==
    IF s = "" THEN ""
    ELSE IF IsSpace(Ch(s, 1)) THEN " " \o Squeeze(LStrip(s))
    ELSE Ch(s, 1) \o Squeeze(SubSeq(s, 2, Len(s)))

\* norm_name(s), s a str or None
norm_name(s) ==
    Strip(Squeeze(Collapse(DropStopWords(Lower(IF s.t = "str" THEN s.s ELSE "")))))

\* the tokens of s.split()
Tokens(s) == {t \in Range(Split(s, " ")) : t # ""}

\* fuzz.token_set_ratio(s1, s2): 0 for an empty text, 100 when the two texts
\* share a token and one has no token of its own; otherwise the ratio of the
\* remaining texts, below 100, which is given with the candidate
token_set_ratio(s1, s2, ratio) ==
    IF Tokens(s1) = {} \/ Tokens(s2) = {} THEN 0
    ELSE IF /\ Tokens(s1) \cap Tokens(s2) # {}
            /\ (Tokens(s1) \ Tokens(s2) = {} \/ Tokens(s2) \ Tokens(s1) = {})
    THEN 100
    ELSE ratio

\* str.isidentifier for ASCII text
IsIdentifier(t) ==
    /\ t # ""
    /\ ~IsDigit(Ch(t, 1))
    /\ \A k \in 1..Len(t) : IsWord(Ch(t, k))

\* the default prefer_types and avoid_name_terms of choose_best_match
DefaultPreferTypes ==
    {"tennis court", "school", "event venue", "recreation center", "park", "stadium",
     "community_center"}

DefaultAvoidNameTerms == {"academy", "shop", "store", "club", "pro shop"}

\* DistScore6 without min(d, 120.0) and max(0, ...)
DistScore6_NoCap(d) == 600 - 5 * d

\* DistScore6 growing with the distance: 0 at 0 m, 100 from 120 m on
DistScore6_FarIsBest(d) == LET m == IF d < 120 THEN d ELSE 120 IN 5 * m

\* 6 * dist_score: max(0, 100 * (1 - min(d, 120.0) / 120.0))
DistScore6(d) == LET m == IF d < 120 THEN d ELSE 120 IN 600 - 5 * m

\* (p.get("displayName", {}) or {}).get("text", "") or "", lower-cased
LowerName(p) == Lower(IF p.name.t = "str" THEN p.name.s ELSE "")

\* Boost600 stopping at the first term that applies
Boost600_FirstOnly(p, prefer_types, avoid_name_terms) ==
    LET name == LowerName(p)
    IN  600 * ( IF p.types \cap {t \in prefer_types : IsIdentifier(t)} # {} THEN 12
                ELSE IF \E term \in prefer_types : Contains(name, term) THEN 8
                ELSE IF \E term \in avoid_name_terms : Contains(name, term) THEN -10
                ELSE 0 )

\* 600 * boost of a candidate
Boost600(p, prefer_types, avoid_name_terms) ==
    LET name == LowerName(p)
    IN  600 * ( (IF p.types \cap {t \in prefer_types : IsIdentifier(t)} # {} THEN 12 ELSE 0)
              + (IF \E term \in prefer_types : Contains(name, term) THEN 8 ELSE 0)
              - (IF \E term \in avoid_name_terms : Contains(name, term) THEN 10 ELSE 0) )

\* 600 * score of a candidate, the boost included
TotalScore600(p, base, prefer_distance, prefer_types, avoid_name_terms) ==
    LET name_score == token_set_ratio(base, norm_name(p.name), p.ratio)
    IN  (IF prefer_distance \/ base = "" THEN 100 * DistScore6(p.metres)
         ELSE 55 * DistScore6(p.metres) + 270 * name_score)
        + Boost600(p, prefer_types, avoid_name_terms)

\* "if score > best[1]: best = (p, score, d)"
Better(p, score, best) ==
    IF score > best.score THEN [place |-> p, score |-> score, meters |-> p.metres] ELSE best

\* the loop of choose_best_match from candidate k on
RECURSIVE BestLoop(_, _, _, _, _, _, _)
BestLoop(candidates, k, best, base, prefer_distance, prefer_types, avoid_name_terms) ==
    IF k > Len(candidates) THEN best
    ELSE BestLoop(candidates, k + 1,
                  Better(candidates[k],
                         TotalScore600(candidates[k], base, prefer_distance, prefer_types,
                                       avoid_name_terms),
                         best),
                  base, prefer_distance, prefer_types, avoid_name_terms)

\* "return best if best[0] else (None, 0, None)"
BestOrNone(best) ==
    IF best.place # Null THEN best ELSE [place |-> Null, score |-> 0, meters |-> Null]

\* choose_best_match(osm_name, lat, lng, candidates, ...): (place, score, meters)
choose_best_match(osm_name, candidates, prefer_distance, prefer_types, avoid_name_terms) ==
    BestOrNone(BestLoop(candidates, 1, [place |-> Null, score |-> -600, meters |-> Null],
                        norm_name(osm_name), prefer_distance,
                        IF prefer_types = Null THEN DefaultPreferTypes ELSE prefer_types.s,
                        IF avoid_name_terms = Null THEN DefaultAvoidNameTerms
                        ELSE avoid_name_terms.s))

\* a Python set
PySet(S) == [t |-> "set", s |-> S]

\* set(x or [])
SetOrEmpty(x) == IF x = Null THEN PySet({}) ELSE x

\* 10 * round(x, 1) for x = n / 600, ties to the even tenth
RoundTenths(n) ==
    LET q == n \div 60
        r == n % 60
    IN  IF r < 30 THEN q
        ELSE IF r > 30 THEN q + 1
        ELSE IF q % 2 = 0 THEN q ELSE q + 1

\* details.get(key, default) of a details dict
Get(details, key, default) == IF key \in DOMAIN details.d THEN details.d[key] ELSE default

\* r with the google field enrich gives it
WithGoogle(r, best, details) ==
    [name |-> r.name, lat |-> r.lat, lon |-> r.lon,
     google |-> [place_id |-> best.place.id,
                 displayName |-> Get(details, "displayName", Dict(<<>>)),
                 formattedAddress |-> Get(details, "formattedAddress", Null),
                 accessibilityOptions |-> Get(details, "accessibilityOptions", Dict(<<>>)),
                 distance_m |-> 10 * best.meters,
                 match_score |-> RoundTenths(best.score)]]

\* Decide taking a best candidate within accept_within_m whatever its score
Decide_AutoAccept(r, best, details, cfg) ==
    LET accept == best.place # Null /\ best.meters <= cfg.accept_within_m
        reject == ~accept /\ best.place # Null /\ best.meters > cfg.hard_reject_over_m
    IN  IF reject THEN [raised |-> FALSE, r |-> r]
        ELSE IF accept \/ (best.place # Null /\ best.score >= 600 * cfg.threshold)
        THEN IF details = Null THEN [raised |-> TRUE, r |-> r]
             ELSE [raised |-> FALSE, r |-> WithGoogle(r, best, details)]
        ELSE [raised |-> FALSE, r |-> r]

\* what enrich does with record r once best is chosen, details being what
\* get_place_details returns: the record appended to out, or raised when
\* details is None and is read
Decide(r, best, details, cfg) ==
    LET accept == best.place # Null /\ best.meters <= cfg.accept_within_m
        reject == ~accept /\ best.place # Null /\ best.meters > cfg.hard_reject_over_m
    IN  IF reject THEN [raised |-> FALSE, r |-> r]
        ELSE IF best.place # Null /\ best.score >= 600 * cfg.threshold
        THEN IF details = Null THEN [raised |-> TRUE, r |-> r]
             ELSE [raised |-> FALSE, r |-> WithGoogle(r, best, details)]
        ELSE [raised |-> FALSE, r |-> r]

\* the body of the loop of enrich for one record r, cands being what
\* places_nearby returned for it
EnrichRecord(r, cands, details, cfg) ==
    Decide(r, choose_best_match(r.name, cands, cfg.prefer_distance,
                                SetOrEmpty(cfg.prefer_types),
                                SetOrEmpty(cfg.avoid_name_terms)),
           details, cfg)

\* Appended leaving a record that got no google field out of out
Appended_DropUnmatched(out, one) ==
    IF "google" \in DOMAIN one.r THEN Append(out, one.r) ELSE out

\* out with the record of one turn of the loop
Appended(out, one) == Append(out, one.r)

\* out after one turn of the loop of enrich, raised when the turn raised
Turn(out, one) ==
    [raised |-> one.raised, out |-> IF one.raised THEN out ELSE Appended(out, one)]

\* enrich(records, ...): out after the records from k on, raised when a
\* record raised
RECURSIVE EnrichLoop(_, _, _, _, _, _)
EnrichLoop(records, found, k, details, cfg, acc) ==
    IF acc.raised \/ k > Len(records) THEN acc
    ELSE EnrichLoop(records, found, k + 1, details, cfg,
                    Turn(acc.out, EnrichRecord(records[k], found[k], details, cfg)))

\* enrich(records, ...) with places_nearby answering found[k] for record k
\* and get_place_details answering details
enrich(records, found, details, cfg) ==
    EnrichLoop(records, found, 1, details, cfg, [raised |-> FALSE, out |-> <<>>])

----------------------------------------------------------------------------
(* The records, the candidates and the settings enrich is run on.          *)

MaxCandidates == 2

MaxRecords == 2

\* a place of a places_nearby answer, metres being its haversine_m distance
\* from the record and ratio what token_set_ratio gives for names that share
\* no token or have each a token of their own
Place(id, name, types, metres, ratio) ==
    [id |-> id, name |-> name, types |-> types, metres |-> metres, ratio |-> ratio]

CandidatePool ==
    { Place("p0", Str("Central Park"), {"park"}, 0, 0),
      Place("p1", Str("Central Tennis Academy"), {}, 60, 0),
      Place("p2", Str("Washington School"), {"school"}, 150, 40),
      Place("p3", Str("Central Park"), {"park"}, 450, 0),
      Place("p4", Str("Tennis Pro Shop"), {"store"}, 500, 0),
      Place("p5", Null, {}, 300, 0),
      Place("p6", Str("Central Park"), {"park"}, 0, 0),
      Place("p7", Str("Washington School"), {"school"}, 90, 40),
      Place("p8", Str("Laguna Tennis Club"), {"park"}, 30, 30) }

SourceNames == {Str("Central Park Tennis Courts"), Null}

Record(name) == [name |-> name, lat |-> 37, lon |-> -122]

Settings(threshold, accept_within_m, hard_reject_over_m, prefer_distance, terms) ==
    [threshold |-> threshold, accept_within_m |-> accept_within_m,
     hard_reject_over_m |-> hard_reject_over_m, prefer_distance |-> prefer_distance,
     prefer_types |-> IF terms THEN PySet({"park", "school"}) ELSE Null,
     avoid_name_terms |-> IF terms THEN PySet({"academy", "shop"}) ELSE Null]

SettingsPool ==
    { Settings(70, 200, 400, TRUE, FALSE),
      Settings(70, 200, 400, FALSE, FALSE),
      Settings(70, 200, 400, TRUE, TRUE),
      Settings(10, 200, 400, TRUE, TRUE),
      Settings(10, 200, 400, FALSE, TRUE),
      Settings(10, 500, 400, TRUE, TRUE) }

\* what get_place_details returns: None after a failed request, else the
\* details
DetailsPool ==
    { Null,
      Dict(("displayName" :> Dict("text" :> Str("Central Park")))
           @@ ("formattedAddress" :> Str("1 Main St"))) }

\* a record and the candidates found for it
Found(name, cands) == [r |-> Record(name), cands |-> cands]

FoundPool ==
    { Found(Str("Central Park Tennis Courts"),
            << Place("p3", Str("Central Park"), {"park"}, 450, 0),
               Place("p0", Str("Central Park"), {"park"}, 0, 0) >>),
      Found(Null, << Place("p4", Str("Tennis Pro Shop"), {"store"}, 500, 0) >>),
      Found(Str("Washington"), <<>>),
      Found(Str("Washington"),
            << Place("p7", Str("Washington School"), {"school"}, 90, 40) >>) }

EnrichRequests ==
    {[records |-> << Record(name) >>, found |-> << cands >>,
      details |-> details, cfg |-> cfg] :
        name \in SourceNames, cands \in SeqsUpTo(CandidatePool, MaxCandidates),
        details \in DetailsPool, cfg \in SettingsPool}
    \cup
    {[records |-> [k \in 1..Len(fs) |-> fs[k].r], found |-> [k \in 1..Len(fs) |-> fs[k].cands],
      details |-> details, cfg |-> cfg] :
        fs \in SeqsUpTo(FoundPool, MaxRecords), details \in DetailsPool, cfg \in SettingsPool}

EnrichInit ==
    /\ request \in EnrichRequests
    /\ result = Null
    /\ pc = "ready"
    /\ op = "none"
    /\ payload = Null
    /\ html = Doc(<<>>, <<>>)
    /\ listing = <<>>
    /\ shape = "raw"
    /\ items = <<>>
    /\ calls = <<>>

\* what a call of enrich gives: the list it returns, or the error it raises
Outcome(e) ==
    IF e.raised THEN Raised("AttributeError") ELSE [kind |-> "enriched", out |-> e.out]

EnrichOutcome(rq) == Outcome(enrich(rq.records, rq.found, rq.details, rq.cfg))

\* enrich(records, ...)
Enrich ==
    /\ pc = "ready"
    /\ result' = EnrichOutcome(request)
    /\ op' = "enrich"
    /\ pc' = IF result'.kind = "raised" THEN "raised" ELSE "done"
    /\ UNCHANGED <<html, listing, shape, items, calls, request, payload>>

\* what a call of choose_best_match gives for the first record of a request
BestOutcome(rq) ==
    [kind |-> "best"] @@
    choose_best_match(rq.records[1].name, rq.found[1], rq.cfg.prefer_distance,
                      rq.cfg.prefer_types, rq.cfg.avoid_name_terms)

\* choose_best_match for the first record and its candidates
ChooseBestMatch ==
    /\ pc = "ready"
    /\ request.records # <<>>
    /\ result' = BestOutcome(request)
    /\ op' = "choose_best_match"
    /\ pc' = "done"
    /\ UNCHANGED <<html, listing, shape, items, calls, request, payload>>

EnrichNext == Enrich \/ ChooseBestMatch

SpecEnrich == EnrichInit /\ [][EnrichNext]_vars

----------------------------------------------------------------------------
(* Claims about the choice of a candidate and about enrich.                *)

\* choose_best_match has returned for a list of candidates
Chosen == op = "choose_best_match" /\ pc = "done"

\* enrich has returned its list
Enriched == op = "enrich" /\ pc = "done"

\* the candidates of the first record of the request
Candidates == request.found[1]

\* the total score choose_best_match gives candidate p when it is called
\* with the settings of the request as they are
DirectScore(p) ==
    TotalScore600(p, norm_name(request.records[1].name), request.cfg.prefer_distance,
                  IF request.cfg.prefer_types = Null THEN DefaultPreferTypes
                  ELSE request.cfg.prefer_types.s,
                  IF request.cfg.avoid_name_terms = Null THEN DefaultAvoidNameTerms
                  ELSE request.cfg.avoid_name_terms.s)

\* candidate k has the greatest total score and is the first to have it
FirstOfGreatest(k) ==
    \A j \in 1..Len(Candidates) :
        /\ DirectScore(Candidates[j]) <= DirectScore(Candidates[k])
        /\ j < k => DirectScore(Candidates[j]) < DirectScore(Candidates[k])

\* C16: for every non-empty candidate list choose_best_match returns the
\* candidate of greatest total score, the first one of the list among
\* those of equal greatest score
C16_GreatestScoreFirst ==
    (Chosen /\ Candidates # <<>>) =>
        \E k \in 1..Len(Candidates) : result.place = Candidates[k] /\ FirstOfGreatest(k)

\* the records of the returned list that got a google field
Attached == {k \in 1..Len(result.out) : "google" \in DOMAIN result.out[k]}

\* C17: enrich never attaches data of a candidate that is farther from the
\* record than hard_reject_over_m
C17_NothingBeyondHardReject ==
    Enriched =>
        \A k \in Attached :
            result.out[k].google.distance_m <= 10 * request.cfg.hard_reject_over_m

\* what choose_best_match returns to enrich for record k of the request
BestFor(k) ==
    choose_best_match(request.records[k].name, request.found[k], request.cfg.prefer_distance,
                      SetOrEmpty(request.cfg.prefer_types),
                      SetOrEmpty(request.cfg.avoid_name_terms))

\* the best candidate of record k lies within accept_within_m
WithinAccept(k) ==
    LET best == BestFor(k)
    IN  best.place # Null /\ best.meters <= request.cfg.accept_within_m

\* the score of the best candidate of record k is below the threshold
BelowThreshold(k) ==
    LET best == BestFor(k)
    IN  best.place # Null /\ best.score < 600 * request.cfg.threshold

HardRejected(k) ==
    LET best == BestFor(k)
    IN  /\ best.place # Null
        /\ ~(best.meters <= request.cfg.accept_within_m)
        /\ best.meters > request.cfg.hard_reject_over_m

\* record r without its google field
WithoutGoogle(r) == [f \in DOMAIN r \ {"google"} |-> r[f]]

SamePlace(p) ==
    p.metres = 0 /\ norm_name(p.name) = norm_name(request.records[1].name)

\* C20: a candidate at 0 m whose normalized name equals that of the record
\* scores at least 70, and with it in the list no candidate farther than
\* 400 m is returned, whatever the order of the list and prefer_distance
C20_SamePlaceBeatsFar ==
    Chosen =>
        \A k \in 1..Len(Candidates) :
            SamePlace(Candidates[k]) =>
                /\ DirectScore(Candidates[k]) >= 600 * 70
                /\ result.place # Null
                /\ result.place.metres <= 400
                /\ result.score >= 600 * 70

\* a candidate beyond 400 m listed before the candidate at 0 m of the same
\* normalized name, the second one returned, scores blended from distance
\* and name
C20_Witness ==
    /\ Chosen
    /\ ~request.cfg.prefer_distance
    /\ Len(Candidates) = 2
    /\ Candidates[1].metres > 400
    /\ SamePlace(Candidates[2])
    /\ norm_name(request.records[1].name) # ""
    /\ result.place = Candidates[2]

\* the prefer_types and the avoid_name_terms choose_best_match works with
\* when it is called with the settings of the request as they are
DirectPreferTypes ==
    IF request.cfg.prefer_types = Null THEN DefaultPreferTypes ELSE request.cfg.prefer_types.s

DirectAvoidTerms ==
    IF request.cfg.avoid_name_terms = Null THEN DefaultAvoidNameTerms
    ELSE request.cfg.avoid_name_terms.s

\* 600 * the score of candidate p before the boosts
BeforeBoosts(p) == DirectScore(p) - Boost600(p, DirectPreferTypes, DirectAvoidTerms)

\* 600 * max(0, 100 * (1 - min(d, R) / R)) with R = 120
DistanceFormula600(d) ==
    LET capped == IF d < 120 THEN d ELSE 120
        value  == 60000 - 500 * capped
    IN  IF value > 0 THEN value ELSE 0

\* C21: with prefer_distance set the score of a candidate before the boosts
\* is max(0, 100 * (1 - min(d, 120) / 120)) whatever the names: 100 at 0 m,
\* never greater for a greater distance, 0 from 120 m on, within 0..100
C21_DistanceScoreAlone ==
    (Chosen /\ request.cfg.prefer_distance) =>
        /\ \A k \in 1..Len(Candidates) :
            LET before == BeforeBoosts(Candidates[k])
            IN  /\ before = DistanceFormula600(Candidates[k].metres)
                /\ before \in 0..60000
                /\ Candidates[k].metres = 0 => before = 60000
                /\ Candidates[k].metres >= 120 => before = 0
                /\ \A j \in 1..(k - 1) :
                    /\ Candidates[j].metres <= Candidates[k].metres
                           => BeforeBoosts(Candidates[j]) >= before
                    /\ Candidates[j].metres >= Candidates[k].metres
                           => BeforeBoosts(Candidates[j]) <= before
        /\ result.place # Null =>
            result.score - Boost600(result.place, DirectPreferTypes, DirectAvoidTerms)
                = DistanceFormula600(result.place.metres)

\* a named record, a candidate between 0 m and 120 m returned ahead of one
\* beyond 120 m, prefer_distance set
C21_Witness ==
    /\ Chosen
    /\ request.cfg.prefer_distance
    /\ request.records[1].name # Null
    /\ Len(Candidates) = 2
    /\ Candidates[1].metres \in 1..119
    /\ Candidates[2].metres > 120
    /\ result.place = Candidates[1]

\* the three terms of the boost of candidate p as the claim words them
TypeTerm(p) == IF p.types \cap DirectPreferTypes # {} THEN 7200 ELSE 0

NameTerm(p) ==
    LET name == LowerName(p)
    IN  IF \E term \in DirectPreferTypes : Contains(name, term) THEN 4800 ELSE 0

AvoidTerm(p) ==
    LET name == LowerName(p)
    IN  IF \E term \in DirectAvoidTerms : Contains(name, term) THEN 6000 ELSE 0

\* C22: the boost of a candidate is +12 exactly when a preferred type is
\* among its types, plus 8 exactly when a preferred term is part of its
\* lower-cased name, minus 10 exactly when an avoid term is part of it
C22_BoostIsSumOfThree ==
    Chosen =>
        /\ \A k \in 1..Len(Candidates) :
            Boost600(Candidates[k], DirectPreferTypes, DirectAvoidTerms)
                = TypeTerm(Candidates[k]) + NameTerm(Candidates[k]) - AvoidTerm(Candidates[k])
        /\ result.place # Null =>
            result.score - BeforeBoosts(result.place)
                = TypeTerm(result.place) + NameTerm(result.place) - AvoidTerm(result.place)

\* a candidate with the type boost and the penalty but no name boost is
\* returned with a total of +2
C22_Witness ==
    /\ Chosen
    /\ result.place # Null
    /\ TypeTerm(result.place) = 7200
    /\ NameTerm(result.place) = 0
    /\ AvoidTerm(result.place) = 6000
    /\ result.score - BeforeBoosts(result.place) = 1200

\* C24: enrich does not raise when get_place_details returns None for the
\* selected place; it finishes the batch and returns every input record
C24_EnrichNeverRaises ==
    op = "enrich" =>
        /\ pc = "done"
        /\ Len(result.out) = Len(request.records)

\* 600 * the total score of candidate p of record k under the default
\* prefer_types and avoid_name_terms of choose_best_match
DefaultTotal(p, k) ==
    TotalScore600(p, norm_name(request.records[k].name), request.cfg.prefer_distance,
                  DefaultPreferTypes, DefaultAvoidNameTerms)

\* C25: enrich called without prefer_types and without avoid_name_terms
\* scores its candidates with the default sets of choose_best_match, so
\* the match_score of an attached candidate holds the boosts of the defaults
C25_EnrichUsesDefaultSets ==
    (Enriched /\ request.cfg.prefer_types = Null /\ request.cfg.avoid_name_terms = Null) =>
        \A k \in Attached :
            \A j \in 1..Len(request.found[k]) :
                request.found[k][j].id = result.out[k].google.place_id
                    => result.out[k].google.match_score
                           = RoundTenths(DefaultTotal(request.found[k][j], k))

----------------------------------------------------------------------------
(* The slot recognizer applied to the text of one child of a cart button.  *)

HourTexts == {"1", "12"}

MinuteTexts == {"00", "59"}

SuffixTexts == {" am", "pm", " PM", ""}

SeparatorTexts == {" - ", "-", " ", " to "}

\* a clock time as the page writes it
ClockText(c) == c.hour \o ":" \o c.minute \o c.suffix

ClockPool == [hour : HourTexts, minute : MinuteTexts, suffix : SuffixTexts]

\* the texts the recognizer is asked about, with the parts they are made of
SlotTexts ==
    {[from |-> a, sep |-> d, to |-> b, text |-> ClockText(a) \o d \o ClockText(b)] :
        a \in ClockPool, d \in SeparatorTexts, b \in ClockPool}

TimeInit ==
    /\ request \in SlotTexts
    /\ result = Null
    /\ pc = "ready"
    /\ op = "none"
    /\ payload = Null
    /\ html = Doc(<<>>, <<>>)
    /\ listing = <<>>
    /\ shape = "raw"
    /\ items = <<>>
    /\ calls = <<>>

\* TIME_RE.fullmatch(time_txt)
Fullmatch ==
    /\ pc = "ready"
    /\ result' = [kind |-> "fullmatch", matched |-> TIME_RE_fullmatch(request.text)]
    /\ op' = "fullmatch"
    /\ pc' = "done"
    /\ UNCHANGED <<html, listing, shape, items, calls, request, payload>>

TimeNext == Fullmatch

SpecTime == TimeInit /\ [][TimeNext]_vars

\* the recognizer has answered
Matched == op = "fullmatch" /\ pc = "done"

\* the suffix is am or pm in some letter case, after one space or none
HasAmPm(c) == Lower(Strip(c.suffix)) \in {"am", "pm"}

\* C23: TIME_RE.fullmatch accepts every text of the form H:MM am - H:MM am
\* (am or pm, any letter case) and rejects every text without the "-" or
\* without am/pm on one of the two sides
C23_FullmatchOfSlotTexts ==
    Matched =>
        /\ (HasAmPm(request.from) /\ HasAmPm(request.to) /\ request.sep = " - ")
               => result.matched
        /\ (~Contains(request.text, "-") \/ ~HasAmPm(request.from) \/ ~HasAmPm(request.to))
               => ~result.matched

\* an upper-case slot text accepted
C23_Witness ==
    /\ Matched
    /\ request.text = "12:59 PM - 1:00 PM"
    /\ result.matched

----------------------------------------------------------------------------
(* fetch_all_cities.py: the batch over the cities of config_webtrac.json.  *)
(*   request = [config (the city names under "WebTrac", in file order),    *)
(*              cities (the --cities list, Null when not given),           *)
(*              down (the sites whose fetch raises)]                       *)
(*   payload = cities_to_process, items = results, calls = the calls of    *)
(*   fetch_schedule as [city, query_mode, site]                            *)

MaxRequested == 2

\* the config files: the city names in file order
CityConfigs ==
    { <<>>,
      << "Burlingame" >>,
      << "Foster City" >>,
      << "Burlingame", "San Mateo", "Albany" >>,
      << "Burlingame", "San Mateo", "Albany", "Foster City" >> }

\* the names --cities is given, split at the commas
RequestedPool == {"burlingame", " Albany", "foster", "oakland"}

CityRequests ==
    [config : CityConfigs,
     cities : {Null} \cup {List(l) : l \in SeqsUpTo(RequestedPool, MaxRequested) \ {<<>>}},
     down   : SUBSET Sites]

\* city_to_mode.get(city, city.lower())
QueryModeOf(city) ==
    CASE city = "Burlingame" -> "burlingame"
      [] city = "San Mateo"  -> "san_mateo"
      [] city = "Albany"     -> "albany"
      [] OTHER               -> Lower(city)

\* the first available city that the requested name equals or is part of,
\* case-insensitively; Null without one
MatchedCity(city, available_cities) ==
    LET hits == {k \in 1..Len(available_cities) :
                    \/ Lower(city) = Lower(available_cities[k])
                    \/ Contains(Lower(available_cities[k]), Lower(city))}
    IN  IF hits = {} THEN Null
        ELSE Str(available_cities[CHOOSE k \in hits : \A j \in hits : k <= j])

\* the requested cities that matched, in request order
RECURSIVE MatchedCities(_, _, _)
MatchedCities(requested, k, available_cities) ==
    IF k > Len(requested) THEN <<>>
    ELSE (IF MatchedCity(Strip(requested[k]), available_cities) = Null THEN <<>>
          ELSE << MatchedCity(Strip(requested[k]), available_cities).s >>)
         \o MatchedCities(requested, k + 1, available_cities)

\* cities_to_process of main
CitiesToProcess(cities, available_cities) ==
    IF cities # Null THEN MatchedCities(cities.l, 1, available_cities)
    ELSE IF \E k \in 1..Len(available_cities) : available_cities[k] = "Foster City"
    THEN << "Foster City" >>
    ELSE available_cities

\* the call of fetch_schedule that fetch_city_schedule makes for city
FetchCall(city) ==
    [city |-> city, query_mode |-> QueryModeOf(city), site |-> SiteOf(QueryModeOf(city))]

\* what fetch_city_schedule returns for city: the fetch of a site raises
\* when the site is down or has no entry in the config
CityResult(city, config, down) ==
    LET site == FetchCall(city).site
    IN  IF site \in down \/ ~\E k \in 1..Len(config) : config[k] = site
        THEN [city |-> city, status |-> "error"]
        ELSE [city |-> city, status |-> "success", courts_count |-> 1]

\* the overall summary and the exit code of main
Overall(cities_to_process, results) ==
    LET successful_cities == SelectSeq(results, LAMBDA r : r.status = "success")
        failed_cities     == SelectSeq(results, LAMBDA r : r.status = "error")
    IN  [kind |-> "summary",
         total_cities |-> Len(cities_to_process),
         successful_cities |-> Len(successful_cities),
         failed_cities |-> Len(failed_cities),
         results |-> results,
         exit |-> IF failed_cities # <<>> THEN 1 ELSE 0]

CitiesInit ==
    /\ request \in CityRequests
    /\ result = Null
    /\ pc = "ready"
    /\ op = "none"
    /\ payload = Null
    /\ html = Doc(<<>>, <<>>)
    /\ listing = <<>>
    /\ shape = "raw"
    /\ items = <<>>
    /\ calls = <<>>

\* main() up to the loop: 1 is returned without cities in the config or
\* without a city to process
CitiesStart ==
    /\ pc = "ready"
    /\ op' = "fetch_all_cities"
    /\ payload' = List(IF request.config = <<>> THEN <<>>
                       ELSE CitiesToProcess(request.cities, request.config))
    /\ IF payload'.l = <<>>
       THEN pc' = "done" /\ result' = [kind |-> "refused", exit |-> 1]
       ELSE pc' = "loop" /\ UNCHANGED result
    /\ UNCHANGED <<html, listing, shape, items, calls, request>>

\* one turn of "for city in cities_to_process"
FetchCity ==
    /\ pc = "loop"
    /\ Len(items) < Len(payload.l)
    /\ calls' = Append(calls, FetchCall(payload.l[Len(items) + 1]))
    /\ items' = Append(items, CityResult(payload.l[Len(items) + 1], request.config,
                                         request.down))
    /\ UNCHANGED <<html, listing, shape, pc, op, request, payload, result>>

\* CitiesFinish leaving the loop at the first city that failed
CitiesFinish_AfterFailure ==
    /\ pc = "loop"
    /\ \/ Len(items) = Len(payload.l)
       \/ items # <<>> /\ items[Len(items)].status = "error"
    /\ result' = Overall(payload.l, items)
    /\ pc' = "done"
    /\ UNCHANGED <<html, listing, shape, op, items, calls, request, payload>>

\* main() after the loop
CitiesFinish ==
    /\ pc = "loop"
    /\ Len(items) = Len(payload.l)
    /\ result' = Overall(payload.l, items)
    /\ pc' = "done"
    /\ UNCHANGED <<html, listing, shape, op, items, calls, request, payload>>

CitiesNext == CitiesStart \/ FetchCity \/ CitiesFinish

SpecCities == CitiesInit /\ [][CitiesNext]_vars

\* C26: for each city passed to fetch_city_schedule the site whose config
\* entry fetch_schedule loads is the entry of that city
C26_OwnSiteOfEachCity ==
    op = "fetch_all_cities" =>
        \A k \in 1..Len(calls) : calls[k].site = calls[k].city

\* the batch has cities to process
BatchRuns == op = "fetch_all_cities" /\ payload.l # <<>>

\* C29: every city to process yields one result of status success or error
\* whatever happened to the cities before it, the successful and the failed
\* cities add up to total_cities, and the exit code is 1 exactly when a city
\* failed
C29_EveryCityOneResult ==
    BatchRuns =>
        /\ Len(items) <= Len(payload.l)
        /\ \A k \in 1..Len(items) :
            items[k].city = payload.l[k] /\ items[k].status \in {"success", "error"}
        /\ pc = "done" =>
            /\ Len(items) = Len(payload.l)
            /\ result.results = items
            /\ result.total_cities = Len(payload.l)
            /\ result.successful_cities + result.failed_cities = result.total_cities
            /\ result.exit = 1 <=> \E k \in 1..Len(items) : items[k].status = "error"

\* a batch of three cities finished, the first failed, the others fetched
C29_Witness ==
    /\ BatchRuns
    /\ pc = "done"
    /\ Len(items) = 3
    /\ items[1].status = "error"
    /\ items[2].status = "success"
    /\ items[3].status = "success"
    /\ result.exit = 1

----------------------------------------------------------------------------
(* google_calendar_integration.py: the court numbers of an event title.    *)

\* the character of s at position k, "" outside s
At(s, k) == IF k \in 1..Len(s) THEN Ch(s, k) ELSE ""

\* (\d+(?:,\d+)*) from position q on, split at the commas and made ints
RECURSIVE NumberList(_, _)
NumberList(s, q) ==
    LET r == q + Len(DigitRun(s, q))
    IN  IF At(s, r) = "," /\ IsDigit(At(s, r + 1))
        THEN << ToInt(DigitRun(s, q)) >> \o NumberList(s, r + 1)
        ELSE << ToInt(DigitRun(s, q)) >>

\* [Cc]ts?:\s* matched from position i: the position of the digit that
\* follows it, 0 without a match
CtsDigitAt(s, i) ==
    LET b == IF At(s, i + 2) = "s" THEN i + 3 ELSE i + 2
        q == b + 1 + SpaceRun(s, b + 1)
    IN  IF /\ At(s, i) \in {"C", "c"}
           /\ At(s, i + 1) = "t"
           /\ At(s, b) = ":"
           /\ IsDigit(At(s, q))
        THEN q ELSE 0

\* [Cc]ourts?\s+ matched from position i: the position of the digit that
\* follows it, 0 without a match
CourtDigitAt(s, i) ==
    LET b == IF At(s, i + 5) = "s" THEN i + 6 ELSE i + 5
        q == b + SpaceRun(s, b)
    IN  IF /\ At(s, i) \in {"C", "c"}
           /\ i + 4 <= Len(s)
           /\ SubSeq(s, i + 1, i + 4) = "ourt"
           /\ SpaceRun(s, b) >= 1
           /\ IsDigit(At(s, q))
        THEN q ELSE 0

\* [Cc]ourts?\s+(\d+)-(\d+) matched from position i: the position of the
\* first digit, 0 without a match
RangeDigitAt(s, i) ==
    LET q == CourtDigitAt(s, i)
        r == q + Len(DigitRun(s, q))
    IN  IF q # 0 /\ At(s, r) = "-" /\ IsDigit(At(s, r + 1)) THEN q ELSE 0

\* the least member of a non-empty set of numbers
Least(S) == CHOOSE i \in S : \A j \in S : i <= j

\* list(range(start, end + 1))
RangeList(start, end) ==
    IF end < start THEN <<>> ELSE [j \in 1..(end - start + 1) |-> start + j - 1]

\* re.findall of (?:[Cc]ourt\s+)?(\d+)(?:\s|$) from position k on: the runs
\* of digits that a whitespace character or the end of the title follows
RECURSIVE Singles(_, _)
Singles(s, k) ==
    IF k > Len(s) THEN <<>>
    ELSE IF ~IsDigit(Ch(s, k)) THEN Singles(s, k + 1)
    ELSE LET r == k + Len(DigitRun(s, k))
         IN  IF r > Len(s) \/ IsSpace(Ch(s, r))
             THEN << ToInt(DigitRun(s, k)) >> \o Singles(s, r + 1)
             ELSE Singles(s, r)

\* extract_court_numbers(event_title)
extract_court_numbers(event_title) ==
    LET cts    == {i \in 1..Len(event_title) : CtsDigitAt(event_title, i) # 0}
        courts == {i \in 1..Len(event_title) : CourtDigitAt(event_title, i) # 0}
        ranges == {i \in 1..Len(event_title) : RangeDigitAt(event_title, i) # 0}
    IN  IF cts # {} THEN NumberList(event_title, CtsDigitAt(event_title, Least(cts)))
        ELSE IF courts # {}
        THEN NumberList(event_title, CourtDigitAt(event_title, Least(courts)))
        ELSE IF ranges # {}
        THEN LET q == RangeDigitAt(event_title, Least(ranges))
                 r == q + Len(DigitRun(event_title, q))
             IN  RangeList(ToInt(DigitRun(event_title, q)),
                           ToInt(DigitRun(event_title, r + 1)))
        ELSE Singles(event_title, 1)

\* the titles: what stands before the court word, the court word, the
\* numbers as written with the courts they name, and what follows
TitleLeads == {"", "USTA CW6.5A DT (TM) "}

TitleWords == {"Cts:", "Court ", "Courts ", ""}

TitleNumbers ==
    { [text |-> "3,4,5", shape |-> "list",   courts |-> << 3, 4, 5 >>],
      [text |-> "1,2",   shape |-> "list",   courts |-> << 1, 2 >>],
      [text |-> "5",     shape |-> "single", courts |-> << 5 >>],
      [text |-> "12",    shape |-> "single", courts |-> << 12 >>],
      [text |-> "1-3",   shape |-> "range",  courts |-> << 1, 2, 3 >>],
      [text |-> "2-2",   shape |-> "range",  courts |-> << 2 >>],
      [text |-> "3-1",   shape |-> "range",  courts |-> <<>>] }

TitleTails == {"", " 7 pm"}

Titles ==
    {[lead |-> a, word |-> w, numbers |-> n, tail |-> z,
      text |-> a \o w \o n.text \o z] :
        a \in TitleLeads, w \in TitleWords, n \in TitleNumbers, z \in TitleTails}

CourtsInit ==
    /\ request \in Titles
    /\ result = Null
    /\ pc = "ready"
    /\ op = "none"
    /\ payload = Null
    /\ html = Doc(<<>>, <<>>)
    /\ listing = <<>>
    /\ shape = "raw"
    /\ items = <<>>
    /\ calls = <<>>

\* extract_court_numbers(event_title)
ExtractCourtNumbers ==
    /\ pc = "ready"
    /\ result' = [kind |-> "courts", numbers |-> extract_court_numbers(request.text)]
    /\ op' = "extract_court_numbers"
    /\ pc' = "done"
    /\ UNCHANGED <<html, listing, shape, items, calls, request, payload>>

CourtsNext == ExtractCourtNumbers

SpecCourts == CourtsInit /\ [][CourtsNext]_vars

\* C27: extract_court_numbers gives the courts its docstring promises:
\* the list after Cts: and after Court, the one court after Court, and
\* every court from A to B for a title Courts A-B with A <= B
C27_DocstringCourts ==
    (op = "extract_court_numbers" /\ pc = "done" /\ request.tail = "") =>
        /\ (request.word = "Cts:" /\ request.numbers.shape = "list")
               => result.numbers = request.numbers.courts
        /\ (request.word = "Court " /\ request.numbers.shape \in {"list", "single"})
               => result.numbers = request.numbers.courts
        /\ (request.word = "Courts " /\ request.numbers.shape = "range"
                /\ request.numbers.courts # <<>>)
               => result.numbers = request.numbers.courts

----------------------------------------------------------------------------
(* fetch_venues.py: http_get_json, one GET with retries.                   *)

MaxRetries == 5

\* a body r.json() cannot decode
NotJson == [t |-> "text", s |-> "<html>busy</html>"]

JsonBodies == { List(<<>>), Dict("elements" :> List(<<>>)) }

StatusPool == {200, 404, 429, 500, 502, 503, 504}

\* what requests.get can give: a response, or an exception of its own
Responses ==
    {[status |-> 200, body |-> b] : b \in JsonBodies \cup {NotJson}}
    \cup {[status |-> c, body |-> NotJson] : c \in StatusPool \ {200}}

\* Retryable retrying on status 500 as well
Retryable_ServerErrors(status_code) == status_code \in {429, 500, 502, 503, 504}

\* r.status_code in (429, 502, 503, 504)
Retryable(status_code) == status_code \in {429, 502, 503, 504}

HttpInit ==
    /\ request \in {[url |-> "https://nominatim.openstreetmap.org/search",
                     max_retries |-> n] : n \in 0..MaxRetries}
    /\ result = Null
    /\ pc = "ready"
    /\ op = "none"
    /\ payload = Null
    /\ html = Doc(<<>>, <<>>)
    /\ listing = <<>>
    /\ shape = "raw"
    /\ items = <<>>
    /\ calls = <<>>

\* http_get_json(url, params, headers, max_retries) is called
HttpCall ==
    /\ pc = "ready"
    /\ op' = "http_get_json"
    /\ pc' = "loop"
    /\ UNCHANGED <<html, listing, shape, items, calls, request, payload, result>>

\* one turn of "for i in range(max_retries)" with i = Len(items): the GET is
\* sent and answered; items holds the responses received, calls the
\* requests sent
HttpGet ==
    /\ pc = "loop"
    /\ Len(items) < request.max_retries
    /\ calls' = Append(calls, request.url)
    /\ \/ \E r \in Responses :
            /\ items' = Append(items, r)
            /\ IF r.status = 200
               THEN IF r.body \in JsonBodies
                    THEN pc' = "returned" /\ result' = [kind |-> "returned", value |-> r.body]
                    ELSE pc' = "raised" /\ result' = Raised("JSONDecodeError")
               ELSE IF Retryable(r.status)
               THEN pc' = "backoff" /\ UNCHANGED result
               ELSE pc' = "raised" /\ result' = Raised("RuntimeError: failed")
       \/ /\ pc' = "raised"
          /\ result' = Raised("RequestException")
          /\ UNCHANGED items
    /\ UNCHANGED <<html, listing, shape, op, request, payload>>

\* backoff_sleep(i), then continue
BackoffSleep ==
    /\ pc = "backoff"
    /\ pc' = "loop"
    /\ UNCHANGED <<html, listing, shape, op, items, calls, request, payload, result>>

\* the loop is over: raise RuntimeError(... failed after max_retries retries)
HttpExhausted ==
    /\ pc = "loop"
    /\ Len(items) >= request.max_retries
    /\ pc' = "raised"
    /\ result' = Raised("RuntimeError: failed after retries")
    /\ UNCHANGED <<html, listing, shape, op, items, calls, request, payload>>

HttpNext == HttpCall \/ HttpGet \/ BackoffSleep \/ HttpExhausted

\* every step of the call is taken in the end: a request is answered or
\* raises within its timeout, and time.sleep returns
SpecHttp == HttpInit /\ [][HttpNext]_vars /\ WF_vars(HttpNext)

\* the call is over
HttpOver == pc \in {"returned", "raised"}

\* the responses before the last one received
Earlier == SubSeq(items, 1, Len(items) - 1)

\* what holds of http_get_json in every state of a call
HttpSafe ==
    /\ Len(calls) <= request.max_retries
    /\ Len(items) <= Len(calls)
    \* a request follows a response only if that response asks for a retry
    /\ \A k \in 1..Len(items) :
           (k < Len(calls)) => items[k].status \in {429, 502, 503, 504}
    \* returned: the body of the first response with status 200
    /\ pc = "returned" =>
           /\ items # <<>>
           /\ items[Len(items)].status = 200
           /\ result = [kind |-> "returned", value |-> items[Len(items)].body]
           /\ \A k \in 1..Len(Earlier) : Earlier[k].status # 200
    \* a response that is neither 200 nor a retry status: raised at once
    /\ (items # <<>> /\ items[Len(items)].status \notin {200, 429, 502, 503, 504}) =>
           /\ pc = "raised"
           /\ Len(calls) = Len(items)
    \* a response with status 200 ends the call
    /\ (items # <<>> /\ items[Len(items)].status = 200) =>
           /\ HttpOver
           /\ Len(calls) = Len(items)
           /\ items[Len(items)].body \in JsonBodies => pc = "returned"
    \* max_retries responses that all ask for a retry: raised after the
    \* last back-off
    /\ (HttpOver /\ Len(items) = request.max_retries
            /\ \A k \in 1..Len(items) : items[k].status \in {429, 502, 503, 504}) =>
           result = Raised("RuntimeError: failed after retries")

\* C30: http_get_json ends after at most max_retries requests: it returns
\* the body of the first response with status 200, sends another request
\* only after a response with status 429, 502, 503 or 504, raises at once
\* on any other status, and raises after max_retries responses that all
\* ask for a retry
C30_EndsWithinMaxRetries == []HttpSafe /\ <>HttpOver

\* C30 witness: a call with the default max_retries that was answered 5
\* times with a retry status and raised after them
C30_Witness ==
    /\ op = "http_get_json"
    /\ request.max_retries = 5
    /\ Len(calls) = 5
    /\ Len(items) = 5
    /\ \A k \in 1..5 : items[k].status \in {429, 502, 503, 504}
    /\ {items[k].status : k \in 1..5} = {429, 502, 503, 504}
    /\ result = Raised("RuntimeError: failed after retries")

====
